---- MODULE Spec2Model ----
(***************************************************************************)
(* VibeSync: a shared listening session.                                   *)
(*   - the Session API over the in-process Map  (src/api/session.js)       *)
(*   - the Session API over the KV store        (src/unnamed/part_002)     *)
(*   - the fan-out Sync endpoint                (src/api/sync.js)          *)
(* JavaScript values are modelled as follows: a string is a TLA+ string,   *)
(* undefined/null/"" in a string position is Undefined, null/undefined in  *)
(* an object position is NullObj, a session code is the sequence of its    *)
(* characters (the empty sequence is the missing/empty code), an array is  *)
(* a sequence, an object is a record.  A track object is carried by its id *)
(* (name, artists, album, albumArt, duration, uri are opaque payload that  *)
(* no handler reads).                                                      *)
(***************************************************************************)
EXTENDS Integers, Sequences, FiniteSets, TLC

VARIABLES
    sessions,   \* session.js: the Map code -> session record
    now,        \* the value Date.now() returns
    resp,       \* the last request handled by the Session API and its response
    prev,       \* the Map as it was when that request arrived
    kv,         \* part_002: the KV store, code -> [session, expiresAt]
    inflight,   \* part_002: handlers that have read the record and not yet saved
    sync,       \* sync.js: the fan-out request being served
    backend,    \* which Session API is deployed: "memory" (session.js) or "kv" (part_002)
    proxy,      \* part_000: the playback request being served
    client      \* part_001, App.js: the state of one React client

vars == <<sessions, now, resp, prev, kv, inflight, sync, backend, proxy, client>>

-----------------------------------------------------------------------------
(* Bounds of the model *)

NumTracks == 2
MaxHistory == 2
MaxTokens == 3
MaxTicks == 4

(* Program constants *)

CodeLength == 6
MaxAgeMs == 86400000
HistoryCap == 50
HistorySlice == 10
ReactionCap == 20
ReactionTtlMs == 5000

-----------------------------------------------------------------------------
(* Values *)

Undefined == "undefined"
NullObj == [isNull |-> TRUE]
NoCode == << >>

AllTracks == <<"t1", "t2", "t3", "t4">>
TrackIds == {AllTracks[i] : i \in 1..NumTracks}
Users == {"u1", "u2"}
HostUser == "u1"
HostToken == "tok-u1"
TrackObj(id) == [id |-> id]

TruthyStr(v) == v # Undefined
TruthyObj(v) == v # NullObj
TruthyCode(c) == c # NoCode
Or(a, b) == IF a # Undefined THEN a ELSE b
IdOf(t) == IF t = NullObj THEN Undefined ELSE t.id

Upper == <<"A","B","C","D","E","F","G","H","I","J","K","L","M",
           "N","O","P","Q","R","S","T","U","V","W","X","Y","Z">>
Lower == <<"a","b","c","d","e","f","g","h","i","j","k","l","m",
           "n","o","p","q","r","s","t","u","v","w","x","y","z">>

UpperOf == [c \in {Lower[i] : i \in 1..Len(Lower)} |->
                Upper[CHOOSE i \in 1..Len(Lower) : Lower[i] = c]]
LowerOf == [c \in {Upper[i] : i \in 1..Len(Upper)} |->
                Lower[CHOOSE i \in 1..Len(Upper) : Upper[i] = c]]
ToUpperChar(c) == IF c \in DOMAIN UpperOf THEN UpperOf[c] ELSE c
ToLowerChar(c) == IF c \in DOMAIN LowerOf THEN LowerOf[c] ELSE c
toUpperCase(code) == [i \in 1..Len(code) |-> ToUpperChar(code[i])]
toLowerCase(code) == [i \in 1..Len(code) |-> ToLowerChar(code[i])]
MixedCase(code) ==
    [i \in 1..Len(code) |-> IF i % 2 = 1 THEN ToLowerChar(code[i]) ELSE code[i]]

-----------------------------------------------------------------------------
(* generateSessionCode *)

chars == <<"A","B","C","D","E","F","G","H","J","K","L","M","N","P","Q","R",
           "S","T","U","V","W","X","Y","Z","2","3","4","5","6","7","8","9">>

(* chars.charAt(Math.floor(Math.random() * chars.length)): the draw is the
   floored index, 0 .. chars.length - 1 *)
charAt(s, i) == s[i + 1]

generateSessionCode(draw) ==
    [i \in 1..CodeLength |-> charAt(chars, draw[i])]

(* The random draws the model explores: "ABC234" and "ZZ99HJ" *)
RandomDraws == { <<0, 1, 2, 24, 25, 26>>, <<23, 23, 31, 31, 7, 8>> }


-----------------------------------------------------------------------------
(* Array helpers *)

Push(seq, x) == Append(seq, x)
Filter(seq, Keep(_)) == SelectSeq(seq, Keep)
IndexOf(seq, Test(_)) ==
    LET hits == {i \in 1..Len(seq) : Test(seq[i])}
    IN IF hits = {} THEN 0 ELSE CHOOSE i \in hits : \A j \in hits : i <= j
Includes(seq, x) == \E i \in 1..Len(seq) : seq[i] = x
Splice1(seq, i) == [j \in 1..(Len(seq) - 1) |-> IF j < i THEN seq[j] ELSE seq[j + 1]]
SliceLast(seq, n) ==
    IF Len(seq) <= n THEN seq ELSE [j \in 1..n |-> seq[Len(seq) - n + j]]
Max0(a, b) == IF a > b THEN a ELSE b

(* Array.prototype.sort with the comparator (a, b) => (b.votes || 0) - (a.votes || 0).
   The sort is stable (ECMAScript 2019, every supported Node runtime): an element
   goes after every element already placed whose votes are not smaller. *)
InsertByVotes(sorted, x) ==
    LET k == Cardinality({i \in 1..Len(sorted) : sorted[i].votes >= x.votes})
    IN [j \in 1..(Len(sorted) + 1) |->
            IF j <= k THEN sorted[j] ELSE IF j = k + 1 THEN x ELSE sorted[j - 1]]

RECURSIVE SortFrom(_, _, _)
SortFrom(q, i, acc) ==
    IF i > Len(q) THEN acc ELSE SortFrom(q, i + 1, InsertByVotes(acc, q[i]))

(* A sort that breaks ties the other way round: not what the runtime does *)
SortByVotesUnstable(q) ==
    LET r == SortFrom([i \in 1..Len(q) |-> q[Len(q) + 1 - i]], 1, << >>) IN r

SortByVotes(q) == SortFrom(q, 1, << >>)

-----------------------------------------------------------------------------
(* The session record and the store (session.js) *)

DefaultSettings ==
    [allowVoting |-> TRUE, allowGuestRemove |-> FALSE,
     autoPlay |-> TRUE, syncPlayback |-> TRUE]

NewSession(code, hostToken, hostName, hostId, t) ==
    [code |-> code, hostId |-> hostId, hostName |-> Or(hostName, "Host"),
     hostToken |-> hostToken, queue |-> << >>, guests |-> << >>,
     history |-> << >>, reactions |-> << >>, playRequests |-> << >>,
     currentTrack |-> NullObj, isPlaying |-> FALSE,
     createdAt |-> t, lastActivity |-> t, settings |-> DefaultSettings]

Has(S, code) == code \in DOMAIN S
Put(S, code, sess) ==
    [c \in (DOMAIN S) \cup {code} |-> IF c = code THEN sess ELSE S[c]]
EmptyMap == [c \in {} |-> NullObj]

cleanOldSessions(S, t) ==
    [c \in {d \in DOMAIN S : ~(t - S[d].createdAt > MaxAgeMs)} |-> S[c]]

Out(S, status, body) == [sessions |-> S, status |-> status, body |-> body]
Err(S, status, msg) == Out(S, status, [error |-> msg])

(* A view of the guests that carries their tokens *)
GuestViewWithToken(guests) ==
    [i \in 1..Len(guests) |->
        [id |-> guests[i].id, name |-> guests[i].name, token |-> guests[i].token]]

(* session.guests.map(g => ({ id: g.id, name: g.name })) *)
GuestView(guests) == [i \in 1..Len(guests) |-> [id |-> guests[i].id, name |-> guests[i].name]]

-----------------------------------------------------------------------------
(* The mutations of one session record.  session.js and part_002 hold the
   same text for these, between the lookup of the session and the response. *)

(* A test that finds no track in the queue *)
AlreadyQueuedNever(session, track) == FALSE

(* case 'addTrack': session.queue.find(t => t.id === track.id) *)
AlreadyQueued(session, track) ==
    IndexOf(session.queue, LAMBDA q : q.id = track.id) # 0

(* case 'addTrack': the push *)
PushTrack(session, track, addedBy, addedById, t) ==
    [session EXCEPT
        !.queue = Push(@, [id |-> track.id,
                           addedBy |-> Or(addedBy, "Guest"),
                           addedById |-> addedById,
                           addedAt |-> t,
                           votes |-> 1,
                           votedBy |-> << Or(addedById, Or(addedBy, "Guest")) >>]),
        !.lastActivity = t]

(* case 'vote': a vote that never retracts *)
ToggleVoteAddOnly(track, voterIdent) ==
    [track EXCEPT !.votes = @ + 1, !.votedBy = Push(@, voterIdent)]

(* case 'vote': the toggle on the track found *)
ToggleVote(track, voterIdent) ==
    IF Includes(track.votedBy, voterIdent)
    THEN [track EXCEPT !.votes = Max0(0, @ - 1),
                       !.votedBy = Filter(@, LAMBDA v : v # voterIdent)]
    ELSE [track EXCEPT !.votes = @ + 1,
                       !.votedBy = Push(@, voterIdent)]

(* case 'vote': toggle, then sort the queue *)
VoteTrack(session, trackId, voterId, t) ==
    LET i == IndexOf(session.queue, LAMBDA q : q.id = trackId)
        voterIdent == Or(voterId, "anonymous")
        voted == [session.queue EXCEPT ![i] = ToggleVote(@, voterIdent)]
    IN [session EXCEPT !.queue = SortByVotes(voted), !.lastActivity = t]

(* An authorization test that leaves allowGuestRemove out *)
MayRemoveHostOrOwner(session, track, requesterId, isHost) ==
    ~(~isHost /\ track.addedById # requesterId)

(* case 'removeTrack': the authorization test on the track found *)
MayRemove(session, track, requesterId, isHost) ==
    ~(~isHost /\ track.addedById # requesterId /\ ~session.settings.allowGuestRemove)

(* case 'removeTrack': the splice *)
SpliceTrack(session, trackIndex, t) ==
    [session EXCEPT !.queue = Splice1(@, trackIndex), !.lastActivity = t]

(* {...session.currentTrack, playedAt: Date.now()} *)
Played(track, t) == [k \in (DOMAIN track) \cup {"playedAt"} |->
                        IF k = "playedAt" THEN t ELSE track[k]]

(* An update-track that pushes the previous track whatever the new one is *)
SetCurrentTrackAlwaysPush(session, track, t) ==
    [session EXCEPT
        !.history = IF session.currentTrack # NullObj
                    THEN Push(@, Played(session.currentTrack, t)) ELSE @,
        !.currentTrack = track, !.isPlaying = TruthyObj(track), !.lastActivity = t]

(* An update-track that overwrites the track and leaves isPlaying as it was *)
SetCurrentTrackOnly(session, track, t) ==
    [session EXCEPT
        !.history = IF session.currentTrack # NullObj /\ session.currentTrack.id # IdOf(track)
                    THEN Push(@, Played(session.currentTrack, t)) ELSE @,
        !.currentTrack = track, !.lastActivity = t]

(* case 'update-track': history push, cap, overwrite *)
SetCurrentTrack(session, track, t) ==
    LET pushed == IF session.currentTrack # NullObj /\ session.currentTrack.id # IdOf(track)
                  THEN Push(session.history, Played(session.currentTrack, t))
                  ELSE session.history
        capped == IF session.currentTrack # NullObj /\ session.currentTrack.id # IdOf(track)
                     /\ Len(pushed) > HistoryCap
                  THEN SliceLast(pushed, HistoryCap)
                  ELSE pushed
    IN [session EXCEPT !.history = capped, !.currentTrack = track,
                       !.isPlaying = TruthyObj(track), !.lastActivity = t]

(* A playNext that takes the last track of the queue instead of the first *)
PopQueue(session, t) ==
    [session EXCEPT
        !.history = IF session.currentTrack # NullObj
                    THEN Push(@, Played(session.currentTrack, t)) ELSE @,
        !.queue = SubSeq(@, 1, Len(@) - 1),
        !.currentTrack = session.queue[Len(session.queue)],
        !.isPlaying = TRUE,
        !.lastActivity = t]

(* case 'playNext': history push, shift *)
ShiftQueue(session, t) ==
    [session EXCEPT
        !.history = IF session.currentTrack # NullObj
                    THEN Push(@, Played(session.currentTrack, t)) ELSE @,
        !.queue = Tail(@),
        !.currentTrack = Head(session.queue),
        !.isPlaying = TRUE,
        !.lastActivity = t]

(* The host token and every guest's token field, set or not *)
CollectTokensUnfiltered(session) ==
    <<session.hostToken>> \o [i \in 1..Len(session.guests) |-> session.guests[i].token]

(* case 'playNext' / 'get-all-tokens': host token, then the guests' tokens *)
CollectTokens(session) ==
    <<session.hostToken>> \o
    [i \in 1..Len(Filter(session.guests, LAMBDA g : TruthyStr(g.token))) |->
        Filter(session.guests, LAMBDA g : TruthyStr(g.token))[i].token]

(* A get that leaves the reactions as they are *)
PruneReactionsNever(session, t) == session

(* case 'get': reactions younger than 5 seconds *)
PruneReactions(session, t) ==
    [session EXCEPT !.reactions = Filter(@, LAMBDA r : t - r.timestamp < ReactionTtlMs)]

(* case 'updateSettings': { ...session.settings, ...settings } *)
MergeSettings(session, settings, t) ==
    [session EXCEPT
        !.settings = [k \in (DOMAIN session.settings) \cup (DOMAIN settings) |->
                        IF k \in DOMAIN settings THEN settings[k] ELSE session.settings[k]],
        !.lastActivity = t]

(* { ...a, ...b } *)
Spread(a, b) ==
    [k \in (DOMAIN a) \cup (DOMAIN b) |-> IF k \in DOMAIN b THEN b[k] ELSE a[k]]

(* case 'join': guestId || `guest_${Date.now()}` *)
GuestIdent(guestId, t) ==
    IF TruthyStr(guestId) THEN guestId ELSE "guest_" \o ToString(t)

(* case 'join': a join that always pushes *)
JoinGuestAlwaysPush(session, guestName, guestId, guestToken, t) ==
    [session EXCEPT
        !.guests = Push(@, [id |-> GuestIdent(guestId, t),
                            name |-> IF TruthyStr(guestName) THEN guestName
                                     ELSE "Guest " \o ToString(Len(session.guests) + 1),
                            token |-> guestToken, joinedAt |-> t]),
        !.lastActivity = t]

(* case 'join': add the guest, or update the guest of that id in place *)
JoinGuest(session, guestName, guestId, guestToken, t) ==
    LET guestIdent == GuestIdent(guestId, t)
        existingGuestIndex == IndexOf(session.guests, LAMBDA g : g.id = guestIdent)
        guestData == [id |-> guestIdent,
                      name |-> IF TruthyStr(guestName) THEN guestName
                               ELSE "Guest " \o ToString(Len(session.guests) + 1),
                      token |-> guestToken, joinedAt |-> t]
    IN [session EXCEPT
          !.guests = IF existingGuestIndex # 0
                     THEN [@ EXCEPT ![existingGuestIndex] = Spread(@, guestData)]
                     ELSE Push(@, guestData),
          !.lastActivity = t]

(* case 'leave' *)
LeaveGuest(session, guestId, t) ==
    [session EXCEPT !.guests = Filter(@, LAMBDA g : g.id # guestId),
                    !.lastActivity = t]

(* case 'update-token' (part_002) *)
SetToken(session, participantId, newToken, isHost, t) ==
    IF isHost
    THEN [session EXCEPT !.hostToken = newToken, !.lastActivity = t]
    ELSE LET i == IndexOf(session.guests, LAMBDA g : g.id = participantId)
         IN IF i # 0
            THEN [session EXCEPT !.guests[i].token = newToken, !.lastActivity = t]
            ELSE [session EXCEPT !.lastActivity = t]

(* case 'react': a push with no cap *)
AddReactionUncapped(session, emoji, userName, userId, t) ==
    [session EXCEPT
        !.reactions = Push(@, [emoji |-> emoji, userName |-> Or(userName, "Anonymous"),
                               userId |-> userId, timestamp |-> t]),
        !.lastActivity = t]

(* case 'react': the push, then the last 20 *)
AddReaction(session, emoji, userName, userId, t) ==
    LET pushed == Push(session.reactions,
                       [emoji |-> emoji, userName |-> Or(userName, "Anonymous"),
                        userId |-> userId, timestamp |-> t])
    IN [session EXCEPT
          !.reactions = IF Len(pushed) > ReactionCap
                        THEN SliceLast(pushed, ReactionCap) ELSE pushed,
          !.lastActivity = t]

(* case 'request-play': a test that finds nothing *)
AlreadyRequestedNever(session, track) == FALSE

(* case 'request-play': session.playRequests.find(r => r.track.id === track.id) *)
AlreadyRequested(session, track) ==
    IndexOf(session.playRequests, LAMBDA r : r.track.id = track.id) # 0

PushRequest(session, track, requestedBy, requestedById, t) ==
    [session EXCEPT
        !.playRequests = Push(@, [track |-> track, requestedBy |-> Or(requestedBy, "Guest"),
                                  requestedById |-> requestedById, requestedAt |-> t]),
        !.lastActivity = t]

(* case 'clear-request': lastActivity is not touched *)
ClearRequest(session, trackId) ==
    [session EXCEPT !.playRequests = Filter(@, LAMBDA r : r.track.id # trackId)]

(* the session as join answers it *)
JoinView(session) ==
    [code |-> session.code, hostName |-> session.hostName, queue |-> session.queue,
     guests |-> GuestView(session.guests),
     history |-> SliceLast(session.history, HistorySlice),
     currentTrack |-> session.currentTrack, isPlaying |-> session.isPlaying,
     settings |-> session.settings]

-----------------------------------------------------------------------------
(* The handlers of session.js.  S is the Map after cleanOldSessions, t is
   Date.now(); the result is the Map the handler leaves and its response. *)

createHandler(S, hostToken, hostName, hostId, draw, t) ==
    IF ~TruthyStr(hostToken) THEN Err(S, 400, "Host token required")
    ELSE LET code == generateSessionCode(draw)
             session == NewSession(code, hostToken, hostName, hostId, t)
         IN Out(Put(S, code, session), 200,
                [success |-> TRUE,
                 session |-> [code |-> code, hostName |-> session.hostName,
                              queueLength |-> 0, guestCount |-> 0]])

(* A get that looks the code up as given *)
getHandlerCaseSensitive(S, code, t) ==
    IF ~TruthyCode(code) THEN Err(S, 400, "Session code required")
    ELSE IF ~Has(S, code) THEN Err(S, 404, "Session not found")
    ELSE LET session == PruneReactions(S[code], t)
         IN Out(Put(S, code, session), 200,
                [success |-> TRUE,
                 session |-> [code |-> session.code, hostName |-> session.hostName,
                              queue |-> session.queue,
                              guests |-> GuestView(session.guests),
                              history |-> SliceLast(session.history, HistorySlice),
                              currentTrack |-> session.currentTrack,
                              isPlaying |-> session.isPlaying,
                              reactions |-> session.reactions,
                              playRequests |-> session.playRequests,
                              settings |-> session.settings,
                              lastActivity |-> session.lastActivity]])

getHandler(S, code, t) ==
    IF ~TruthyCode(code) THEN Err(S, 400, "Session code required")
    ELSE IF ~Has(S, toUpperCase(code)) THEN Err(S, 404, "Session not found")
    ELSE LET key == toUpperCase(code)
             session == PruneReactions(S[key], t)
         IN Out(Put(S, key, session), 200,
                [success |-> TRUE,
                 session |-> [code |-> session.code, hostName |-> session.hostName,
                              queue |-> session.queue,
                              guests |-> GuestView(session.guests),
                              history |-> SliceLast(session.history, HistorySlice),
                              currentTrack |-> session.currentTrack,
                              isPlaying |-> session.isPlaying,
                              reactions |-> session.reactions,
                              playRequests |-> session.playRequests,
                              settings |-> session.settings,
                              lastActivity |-> session.lastActivity]])

(* An addTrack without the already-in-queue test *)
addTrackHandlerNoDupCheck(S, code, track, addedBy, addedById, t) ==
    IF ~TruthyCode(code) \/ ~TruthyObj(track) THEN Err(S, 400, "Session code and track required")
    ELSE IF ~Has(S, toUpperCase(code)) THEN Err(S, 404, "Session not found")
    ELSE LET key == toUpperCase(code)
             session == PushTrack(S[key], track, addedBy, addedById, t)
         IN Out(Put(S, key, session), 200, [success |-> TRUE, queue |-> session.queue])

addTrackHandler(S, code, track, addedBy, addedById, t) ==
    IF ~TruthyCode(code) \/ ~TruthyObj(track) THEN Err(S, 400, "Session code and track required")
    ELSE IF ~Has(S, toUpperCase(code)) THEN Err(S, 404, "Session not found")
    ELSE IF AlreadyQueued(S[toUpperCase(code)], track)
    THEN Err(S, 400, "Track already in queue")
    ELSE LET key == toUpperCase(code)
             session == PushTrack(S[key], track, addedBy, addedById, t)
         IN Out(Put(S, key, session), 200, [success |-> TRUE, queue |-> session.queue])

(* A vote that never looks at the allowVoting setting *)
voteHandlerAnySetting(S, code, trackId, voterId, t) ==
    IF ~TruthyCode(code) \/ ~TruthyStr(trackId)
    THEN Err(S, 400, "Session code and track ID required")
    ELSE IF ~Has(S, toUpperCase(code)) THEN Err(S, 404, "Session not found")
    ELSE IF IndexOf(S[toUpperCase(code)].queue, LAMBDA q : q.id = trackId) = 0
    THEN Err(S, 404, "Track not found in queue")
    ELSE LET key == toUpperCase(code)
             session == VoteTrack(S[key], trackId, voterId, t)
         IN Out(Put(S, key, session), 200, [success |-> TRUE, queue |-> session.queue])

voteHandler(S, code, trackId, voterId, t) ==
    IF ~TruthyCode(code) \/ ~TruthyStr(trackId)
    THEN Err(S, 400, "Session code and track ID required")
    ELSE IF ~Has(S, toUpperCase(code)) THEN Err(S, 404, "Session not found")
    ELSE IF ~S[toUpperCase(code)].settings.allowVoting THEN Err(S, 403, "Voting disabled")
    ELSE IF IndexOf(S[toUpperCase(code)].queue, LAMBDA q : q.id = trackId) = 0
    THEN Err(S, 404, "Track not found in queue")
    ELSE LET key == toUpperCase(code)
             session == VoteTrack(S[key], trackId, voterId, t)
         IN Out(Put(S, key, session), 200, [success |-> TRUE, queue |-> session.queue])

(* A removeTrack that splices the track out before it asks who may *)
removeTrackHandlerSpliceFirst(S, code, trackId, requesterId, isHost, t) ==
    IF ~TruthyCode(code) \/ ~TruthyStr(trackId)
    THEN Err(S, 400, "Session code and track ID required")
    ELSE IF ~Has(S, toUpperCase(code)) THEN Err(S, 404, "Session not found")
    ELSE LET key == toUpperCase(code)
             trackIndex == IndexOf(S[key].queue, LAMBDA q : q.id = trackId)
         IN IF trackIndex = 0 THEN Err(S, 404, "Track not found")
            ELSE LET session == SpliceTrack(S[key], trackIndex, t)
                 IN IF ~MayRemove(S[key], S[key].queue[trackIndex], requesterId, isHost)
                    THEN Out(Put(S, key, session), 403,
                             [error |-> "Not authorized to remove this track"])
                    ELSE Out(Put(S, key, session), 200,
                             [success |-> TRUE, queue |-> session.queue])

removeTrackHandler(S, code, trackId, requesterId, isHost, t) ==
    IF ~TruthyCode(code) \/ ~TruthyStr(trackId)
    THEN Err(S, 400, "Session code and track ID required")
    ELSE IF ~Has(S, toUpperCase(code)) THEN Err(S, 404, "Session not found")
    ELSE LET key == toUpperCase(code)
             trackIndex == IndexOf(S[key].queue, LAMBDA q : q.id = trackId)
         IN IF trackIndex = 0 THEN Err(S, 404, "Track not found")
            ELSE IF ~MayRemove(S[key], S[key].queue[trackIndex], requesterId, isHost)
            THEN Err(S, 403, "Not authorized to remove this track")
            ELSE LET session == SpliceTrack(S[key], trackIndex, t)
                 IN Out(Put(S, key, session), 200,
                        [success |-> TRUE, queue |-> session.queue])

updateTrackHandler(S, code, track, t) ==
    IF ~TruthyCode(code) THEN Err(S, 400, "Session code required")
    ELSE IF ~Has(S, toUpperCase(code)) THEN Err(S, 404, "Session not found")
    ELSE LET key == toUpperCase(code)
             session == SetCurrentTrack(S[key], track, t)
         IN Out(Put(S, key, session), 200,
                [success |-> TRUE, currentTrack |-> session.currentTrack,
                 history |-> SliceLast(session.history, HistorySlice)])

playNextHandler(S, code, t) ==
    IF ~TruthyCode(code) THEN Err(S, 400, "Session code required")
    ELSE IF ~Has(S, toUpperCase(code)) THEN Err(S, 404, "Session not found")
    ELSE IF Len(S[toUpperCase(code)].queue) = 0 THEN Err(S, 400, "Queue is empty")
    ELSE LET key == toUpperCase(code)
             session == ShiftQueue(S[key], t)
         IN Out(Put(S, key, session), 200,
                [success |-> TRUE, track |-> session.currentTrack,
                 queue |-> session.queue, tokens |-> CollectTokens(session),
                 history |-> SliceLast(session.history, HistorySlice)])

updateSettingsHandler(S, code, settings, t) ==
    IF ~TruthyCode(code) \/ ~TruthyObj(settings)
    THEN Err(S, 400, "Session code and settings required")
    ELSE IF ~Has(S, toUpperCase(code)) THEN Err(S, 404, "Session not found")
    ELSE LET key == toUpperCase(code)
             session == MergeSettings(S[key], settings, t)
         IN Out(Put(S, key, session), 200,
                [success |-> TRUE, settings |-> session.settings])

joinHandler(S, code, guestName, guestId, guestToken, t) ==
    IF ~TruthyCode(code) THEN Err(S, 400, "Session code required")
    ELSE IF ~Has(S, toUpperCase(code)) THEN Err(S, 404, "Session not found")
    ELSE LET key == toUpperCase(code)
             session == JoinGuest(S[key], guestName, guestId, guestToken, t)
         IN Out(Put(S, key, session), 200,
                [success |-> TRUE, session |-> JoinView(session)])

getAllTokensHandler(S, code, t) ==
    IF ~TruthyCode(code) THEN Err(S, 400, "Session code required")
    ELSE IF ~Has(S, toUpperCase(code)) THEN Err(S, 404, "Session not found")
    ELSE LET tokens == CollectTokens(S[toUpperCase(code)])
         IN Out(S, 200, [success |-> TRUE, tokens |-> tokens,
                         participantCount |-> Len(tokens)])

reactHandler(S, code, emoji, userName, userId, t) ==
    IF ~TruthyCode(code) \/ ~TruthyStr(emoji)
    THEN Err(S, 400, "Session code and emoji required")
    ELSE IF ~Has(S, toUpperCase(code)) THEN Err(S, 404, "Session not found")
    ELSE LET key == toUpperCase(code)
             session == AddReaction(S[key], emoji, userName, userId, t)
         IN Out(Put(S, key, session), 200,
                [success |-> TRUE, reactions |-> session.reactions])

requestPlayHandler(S, code, track, requestedBy, requestedById, t) ==
    IF ~TruthyCode(code) \/ ~TruthyObj(track)
    THEN Err(S, 400, "Session code and track required")
    ELSE IF ~Has(S, toUpperCase(code)) THEN Err(S, 404, "Session not found")
    ELSE IF AlreadyRequested(S[toUpperCase(code)], track)
    THEN Err(S, 400, "Song already requested")
    ELSE LET key == toUpperCase(code)
             session == PushRequest(S[key], track, requestedBy, requestedById, t)
         IN Out(Put(S, key, session), 200,
                [success |-> TRUE, message |-> "Request sent to host",
                 requests |-> session.playRequests])

clearRequestHandler(S, code, trackId, t) ==
    IF ~TruthyCode(code) THEN Err(S, 400, "Session code required")
    ELSE IF ~Has(S, toUpperCase(code)) THEN Err(S, 404, "Session not found")
    ELSE LET key == toUpperCase(code)
             session == ClearRequest(S[key], trackId)
         IN Out(Put(S, key, session), 200,
                [success |-> TRUE, requests |-> session.playRequests])

endHandler(S, code, t) ==
    IF ~TruthyCode(code) THEN Err(S, 400, "Session code required")
    ELSE IF Has(S, toUpperCase(code))
    THEN Out([c \in (DOMAIN S) \ {toUpperCase(code)} |-> S[c]], 200,
             [success |-> TRUE, message |-> "Session ended"])
    ELSE Out(S, 200, [success |-> FALSE, message |-> "Session not found"])

leaveHandler(S, code, guestId, t) ==
    IF ~TruthyCode(code) THEN Err(S, 400, "Session code required")
    ELSE IF ~Has(S, toUpperCase(code)) THEN Err(S, 404, "Session not found")
    ELSE LET key == toUpperCase(code)
             session == LeaveGuest(S[key], guestId, t)
         IN Out(Put(S, key, session), 200,
                [success |-> TRUE, guestCount |-> Len(session.guests)])

(* action names that are no case of the switch, update-token among them *)
invalidActionHandler(S) == Err(S, 400, "Invalid action")

-----------------------------------------------------------------------------
(* The KV store and the handlers of part_002.  A handler reads the record
   (getSession), changes its copy, and writes the whole record back
   (saveSession); other handlers run between its read and its write. *)

SESSION_TTL_S == 86400
Idle == NullObj
Clients == {"A", "B"}

(* kv.get: the record, or null when the key is absent or expired or the store
   fails (getSession catches the error and returns null) *)
getSession(K, code, getOk, t) ==
    IF ~TruthyCode(code) \/ ~getOk THEN NullObj
    ELSE IF toUpperCase(code) \in DOMAIN K /\ t < K[toUpperCase(code)].expiresAt
    THEN K[toUpperCase(code)].session
    ELSE NullObj

(* A store that keeps, behind the queue it is given, the queued tracks it
   holds that the writer has not seen *)
saveSessionMerging(K, code, session, setOk, t) ==
    IF ~setOk THEN K
    ELSE LET key == toUpperCase(code)
             unseen == IF key \in DOMAIN K
                       THEN SelectSeq(K[key].session.queue,
                                LAMBDA q : \A i \in 1..Len(session.queue) :
                                              session.queue[i].id # q.id)
                       ELSE << >>
         IN Put(K, key, [session |-> [session EXCEPT !.queue = @ \o unseen],
                         expiresAt |-> t + SESSION_TTL_S * 1000])

(* kv.set with { ex: SESSION_TTL }; a failing store leaves the key as it was *)
saveSession(K, code, session, setOk, t) ==
    IF setOk
    THEN Put(K, toUpperCase(code),
             [session |-> session, expiresAt |-> t + SESSION_TTL_S * 1000])
    ELSE K

(* kv.del: the key is removed; the result is true unless the store throws,
   whether or not the key was there *)
deleteSession(K, code, delOk) ==
    [store |-> IF delOk THEN [c \in (DOMAIN K) \ {toUpperCase(code)} |-> K[c]] ELSE K,
     deleted |-> delOk]

(* What a handler has when its read is done: a response to send at once, or
   a record to save and the response that follows the save *)
Reply(status, body) ==
    [save |-> FALSE, status |-> status, body |-> body, session |-> NullObj]
Save(session, body) ==
    [save |-> TRUE, status |-> 200, body |-> body, session |-> session]

kvAddTrack(K, getOk, code, track, addedBy, addedById, t) ==
    IF ~TruthyCode(code) \/ ~TruthyObj(track)
    THEN Reply(400, [error |-> "Session code and track required"])
    ELSE LET session == getSession(K, code, getOk, t)
         IN IF session = NullObj THEN Reply(404, [error |-> "Session not found"])
            ELSE IF AlreadyQueued(session, track)
            THEN Reply(400, [error |-> "Track already in queue"])
            ELSE LET changed == PushTrack(session, track, addedBy, addedById, t)
                 IN Save(changed, [success |-> TRUE, queue |-> changed.queue])

kvVote(K, getOk, code, trackId, voterId, t) ==
    IF ~TruthyCode(code) \/ ~TruthyStr(trackId)
    THEN Reply(400, [error |-> "Session code and track ID required"])
    ELSE LET session == getSession(K, code, getOk, t)
         IN IF session = NullObj THEN Reply(404, [error |-> "Session not found"])
            ELSE IF ~session.settings.allowVoting
            THEN Reply(403, [error |-> "Voting disabled"])
            ELSE IF IndexOf(session.queue, LAMBDA q : q.id = trackId) = 0
            THEN Reply(404, [error |-> "Track not found in queue"])
            ELSE LET changed == VoteTrack(session, trackId, voterId, t)
                 IN Save(changed, [success |-> TRUE, queue |-> changed.queue])

kvRemoveTrack(K, getOk, code, trackId, requesterId, isHost, t) ==
    IF ~TruthyCode(code) \/ ~TruthyStr(trackId)
    THEN Reply(400, [error |-> "Session code and track ID required"])
    ELSE LET session == getSession(K, code, getOk, t)
         IN IF session = NullObj THEN Reply(404, [error |-> "Session not found"])
            ELSE LET trackIndex == IndexOf(session.queue, LAMBDA q : q.id = trackId)
                 IN IF trackIndex = 0 THEN Reply(404, [error |-> "Track not found"])
                    ELSE IF ~MayRemove(session, session.queue[trackIndex],
                                       requesterId, isHost)
                    THEN Reply(403, [error |-> "Not authorized to remove this track"])
                    ELSE LET changed == SpliceTrack(session, trackIndex, t)
                         IN Save(changed, [success |-> TRUE, queue |-> changed.queue])

kvJoin(K, getOk, code, guestName, guestId, guestToken, t) ==
    IF ~TruthyCode(code) THEN Reply(400, [error |-> "Session code required"])
    ELSE LET session == getSession(K, code, getOk, t)
         IN IF session = NullObj THEN Reply(404, [error |-> "Session not found"])
            ELSE LET changed == JoinGuest(session, guestName, guestId, guestToken, t)
                 IN Save(changed, [success |-> TRUE, session |-> JoinView(changed)])

(* case 'leave': an absent session is no error *)
kvLeave(K, getOk, code, guestId, t) ==
    IF ~TruthyCode(code) THEN Reply(400, [error |-> "Session code required"])
    ELSE LET session == getSession(K, code, getOk, t)
         IN IF session = NullObj
            THEN Reply(200, [success |-> TRUE, message |-> "Session already ended"])
            ELSE LET changed == LeaveGuest(session, guestId, t)
                 IN Save(changed, [success |-> TRUE, guestCount |-> Len(changed.guests)])

(* case 'update-token': an absent session is no error *)
kvUpdateToken(K, getOk, code, userId, newToken, isHost, t) ==
    IF ~TruthyCode(code) \/ ~TruthyStr(newToken)
    THEN Reply(400, [error |-> "Session code and new token required"])
    ELSE LET session == getSession(K, code, getOk, t)
         IN IF session = NullObj
            THEN Reply(200, [success |-> TRUE,
                             message |-> "Session not found, token not updated"])
            ELSE Save(SetToken(session, userId, newToken, isHost, t), [success |-> TRUE])

-----------------------------------------------------------------------------
(* The Session API over the in-process Map: one action per request.  Every
   request first runs cleanOldSessions (session.js:58), then its case. *)

(* resp.after: what the request follows: "same", the same request, which
   succeeded; "create", a create that succeeded; "other", anything else *)
NoResponse ==
    [action |-> "none", req |-> NullObj, status |-> 0, body |-> NullObj, after |-> "other",
     joined |-> EmptyMap]

(* resp.joined: per code, the guests of the session created last under that
   code, in the order of their first join *)
NoteJoin(joined, action, req, out, t) ==
    IF action = "create" /\ out.status = 200
    THEN Put(joined, out.body.session.code, << >>)
    ELSE IF action = "join" /\ out.status = 200
    THEN LET key == toUpperCase(req.code)
             ident == GuestIdent(req.guestId, t)
         IN IF Includes(joined[key], ident) THEN joined
            ELSE Put(joined, key, Push(joined[key], ident))
    ELSE joined

Answer(action, req, out) ==
    /\ prev' = sessions
    /\ sessions' = out.sessions
    /\ resp' = [action |-> action, req |-> req, status |-> out.status, body |-> out.body,
                after |-> IF resp.action = action /\ resp.req = req /\ resp.status = 200
                          THEN "same"
                          ELSE IF resp.action = "create" /\ resp.status = 200
                          THEN "create" ELSE "other",
                joined |-> NoteJoin(resp.joined, action, req, out, now)]
    /\ backend = "memory"
    /\ UNCHANGED <<now, kv, inflight, sync, backend, proxy>>

(* A request sent by somebody else than the client *)
Serve(action, req, out) == Answer(action, req, out) /\ UNCHANGED client

Create(hostToken, hostName, hostId, draw) ==
    Serve("create", [hostToken |-> hostToken, hostName |-> hostName, hostId |-> hostId],
          createHandler(cleanOldSessions(sessions, now),
                        hostToken, hostName, hostId, draw, now))

Get(code) ==
    Serve("get", [code |-> code], getHandler(cleanOldSessions(sessions, now), code, now))

(* An addTrack that works on the Map as it was when the request before it
   arrived, as a handler would that had read it then and was suspended *)
AddTrackStale(code, track, addedBy, addedById) ==
    Serve("addTrack",
          [code |-> code, track |-> track, addedBy |-> addedBy, addedById |-> addedById],
          addTrackHandler(cleanOldSessions(prev, now),
                          code, track, addedBy, addedById, now))

AddTrack(code, track, addedBy, addedById) ==
    Serve("addTrack",
          [code |-> code, track |-> track, addedBy |-> addedBy, addedById |-> addedById],
          addTrackHandler(cleanOldSessions(sessions, now),
                          code, track, addedBy, addedById, now))

Vote(code, trackId, voterId) ==
    Serve("vote", [code |-> code, trackId |-> trackId, voterId |-> voterId],
          voteHandler(cleanOldSessions(sessions, now), code, trackId, voterId, now))

RemoveTrack(code, trackId, requesterId, isHost) ==
    Serve("removeTrack",
          [code |-> code, trackId |-> trackId, requesterId |-> requesterId,
           isHost |-> isHost],
          removeTrackHandler(cleanOldSessions(sessions, now),
                             code, trackId, requesterId, isHost, now))

UpdateTrack(code, track) ==
    Serve("update-track", [code |-> code, track |-> track],
          updateTrackHandler(cleanOldSessions(sessions, now), code, track, now))

PlayNext(code) ==
    Serve("playNext", [code |-> code],
          playNextHandler(cleanOldSessions(sessions, now), code, now))

UpdateSettings(code, settings) ==
    Serve("updateSettings", [code |-> code, settings |-> settings],
          updateSettingsHandler(cleanOldSessions(sessions, now), code, settings, now))

Join(code, guestName, guestId, guestToken) ==
    Serve("join", [code |-> code, guestName |-> guestName, guestId |-> guestId,
                   guestToken |-> guestToken],
          joinHandler(cleanOldSessions(sessions, now), code, guestName, guestId,
                      guestToken, now))

GetAllTokens(code) ==
    Serve("get-all-tokens", [code |-> code],
          getAllTokensHandler(cleanOldSessions(sessions, now), code, now))

React(code, emoji, userName, userId) ==
    Serve("react", [code |-> code, emoji |-> emoji, userName |-> userName,
                    userId |-> userId],
          reactHandler(cleanOldSessions(sessions, now), code, emoji, userName, userId, now))

RequestPlay(code, track, requestedBy, requestedById) ==
    Serve("request-play", [code |-> code, track |-> track, requestedBy |-> requestedBy,
                           requestedById |-> requestedById],
          requestPlayHandler(cleanOldSessions(sessions, now), code, track, requestedBy,
                             requestedById, now))

ClearRequestOf(code, trackId) ==
    Serve("clear-request", [code |-> code, trackId |-> trackId],
          clearRequestHandler(cleanOldSessions(sessions, now), code, trackId, now))

End(code) ==
    Serve("end", [code |-> code], endHandler(cleanOldSessions(sessions, now), code, now))

Leave(code, guestId) ==
    Serve("leave", [code |-> code, guestId |-> guestId],
          leaveHandler(cleanOldSessions(sessions, now), code, guestId, now))

(* session.js has no case 'update-token': the default case answers *)
UpdateToken(code, userId, newToken, isHost) ==
    Serve("update-token", [code |-> code, userId |-> userId, newToken |-> newToken,
                           isHost |-> isHost],
          invalidActionHandler(cleanOldSessions(sessions, now)))

kvRequestPlay(K, getOk, code, track, requestedBy, requestedById, t) ==
    IF ~TruthyCode(code) \/ ~TruthyObj(track)
    THEN Reply(400, [error |-> "Session code and track required"])
    ELSE LET session == getSession(K, code, getOk, t)
         IN IF session = NullObj THEN Reply(404, [error |-> "Session not found"])
            ELSE IF AlreadyRequested(session, track)
            THEN Reply(400, [error |-> "Song already requested"])
            ELSE LET changed == PushRequest(session, track, requestedBy, requestedById, t)
                 IN Save(changed, [success |-> TRUE, message |-> "Request sent to host",
                                   requests |-> changed.playRequests])

(* case 'clear-request': the record is saved whether or not it changed *)
kvClearRequest(K, getOk, code, trackId, t) ==
    IF ~TruthyCode(code) THEN Reply(400, [error |-> "Session code required"])
    ELSE LET session == getSession(K, code, getOk, t)
         IN IF session = NullObj THEN Reply(404, [error |-> "Session not found"])
            ELSE LET changed == ClearRequest(session, trackId)
                 IN Save(changed, [success |-> TRUE, requests |-> changed.playRequests])

(* the session as get answers it *)
GetView(session) ==
    [code |-> session.code, hostName |-> session.hostName, queue |-> session.queue,
     guests |-> GuestView(session.guests),
     history |-> SliceLast(session.history, HistorySlice),
     currentTrack |-> session.currentTrack, isPlaying |-> session.isPlaying,
     reactions |-> session.reactions, playRequests |-> session.playRequests,
     settings |-> session.settings, lastActivity |-> session.lastActivity]

(* case 'get': the record is saved only when the pruning removed a reaction;
   lastActivity is not touched *)
kvGet(K, getOk, code, t) ==
    IF ~TruthyCode(code) THEN Reply(400, [error |-> "Session code required"])
    ELSE LET session == getSession(K, code, getOk, t)
         IN IF session = NullObj THEN Reply(404, [error |-> "Session not found"])
            ELSE LET pruned == PruneReactions(session, t)
                     body == [success |-> TRUE, session |-> GetView(pruned)]
                 IN IF Len(pruned.reactions) # Len(session.reactions)
                    THEN Save(pruned, body)
                    ELSE Reply(200, body)

kvReact(K, getOk, code, emoji, userName, userId, t) ==
    IF ~TruthyCode(code) \/ ~TruthyStr(emoji)
    THEN Reply(400, [error |-> "Session code and emoji required"])
    ELSE LET session == getSession(K, code, getOk, t)
         IN IF session = NullObj THEN Reply(404, [error |-> "Session not found"])
            ELSE LET changed == AddReaction(session, emoji, userName, userId, t)
                 IN Save(changed, [success |-> TRUE, reactions |-> changed.reactions])

-----------------------------------------------------------------------------
(* The Session API over the KV store: a request is served in one step when it
   is answered without a write, and in two (the read, then the write and the
   response) when it saves; client c has at most one request under way. *)

kvUpdateSettings(K, getOk, code, settings, t) ==
    IF ~TruthyCode(code) \/ ~TruthyObj(settings)
    THEN Reply(400, [error |-> "Session code and settings required"])
    ELSE LET session == getSession(K, code, getOk, t)
         IN IF session = NullObj THEN Reply(404, [error |-> "Session not found"])
            ELSE LET changed == MergeSettings(session, settings, t)
                 IN Save(changed, [success |-> TRUE, settings |-> changed.settings])

KVRespond(action, req, status, body) ==
    /\ prev' = kv
    /\ resp' = [action |-> action, req |-> req, status |-> status, body |-> body,
                after |-> IF resp.action = action /\ resp.req = req /\ resp.status = 200
                          THEN "same"
                          ELSE IF resp.action = "create" /\ resp.status = 200
                          THEN "create" ELSE "other",
                joined |-> resp.joined]

KVCreate(hostToken, hostName, hostId, draw, setOk) ==
    /\ backend = "kv"
    /\ LET code == generateSessionCode(draw)
           session == NewSession(code, hostToken, hostName, hostId, now)
           req == [hostToken |-> hostToken, hostName |-> hostName, hostId |-> hostId]
       IN IF ~TruthyStr(hostToken)
          THEN KVRespond("create", req, 400, [error |-> "Host token required"])
               /\ UNCHANGED kv
          ELSE /\ kv' = saveSession(kv, code, session, setOk, now)
               /\ IF ~setOk
                  THEN KVRespond("create", req, 500,
                                 [error |-> "Failed to create session - storage error"])
                  ELSE KVRespond("create", req, 200,
                                 [success |-> TRUE,
                                  session |-> [code |-> code, hostName |-> session.hostName,
                                               queueLength |-> 0, guestCount |-> 0]])
    /\ UNCHANGED <<sessions, now, inflight, sync, backend, proxy, client>>

KVBegin(c, action, req, res) ==
    /\ backend = "kv"
    /\ inflight[c] = Idle
    /\ IF res.save
       THEN /\ inflight' = [inflight EXCEPT ![c] =
                                [action |-> action, req |-> req, session |-> res.session,
                                 status |-> res.status, body |-> res.body]]
            /\ UNCHANGED <<resp, prev>>
       ELSE /\ KVRespond(action, req, res.status, res.body)
            /\ UNCHANGED inflight
    /\ UNCHANGED <<sessions, now, kv, sync, backend, proxy, client>>

(* await saveSession(code, session), whose result the handler does not look
   at, then the response *)
KVCommit(c, setOk) ==
    /\ backend = "kv"
    /\ inflight[c] # Idle
    /\ kv' = saveSession(kv, inflight[c].req.code, inflight[c].session, setOk, now)
    /\ KVRespond(inflight[c].action, inflight[c].req, inflight[c].status, inflight[c].body)
    /\ inflight' = [inflight EXCEPT ![c] = Idle]
    /\ UNCHANGED <<sessions, now, sync, backend, proxy, client>>

KVAddTrack(c, getOk, code, track, addedBy, addedById) ==
    KVBegin(c, "addTrack",
            [code |-> code, track |-> track, addedBy |-> addedBy, addedById |-> addedById],
            kvAddTrack(kv, getOk, code, track, addedBy, addedById, now))

KVVote(c, getOk, code, trackId, voterId) ==
    KVBegin(c, "vote", [code |-> code, trackId |-> trackId, voterId |-> voterId],
            kvVote(kv, getOk, code, trackId, voterId, now))

KVRemoveTrack(c, getOk, code, trackId, requesterId, isHost) ==
    KVBegin(c, "removeTrack",
            [code |-> code, trackId |-> trackId, requesterId |-> requesterId,
             isHost |-> isHost],
            kvRemoveTrack(kv, getOk, code, trackId, requesterId, isHost, now))

KVJoin(c, getOk, code, guestName, guestId, guestToken) ==
    KVBegin(c, "join", [code |-> code, guestName |-> guestName, guestId |-> guestId,
                        guestToken |-> guestToken],
            kvJoin(kv, getOk, code, guestName, guestId, guestToken, now))

KVLeave(c, getOk, code, guestId) ==
    KVBegin(c, "leave", [code |-> code, guestId |-> guestId],
            kvLeave(kv, getOk, code, guestId, now))

KVUpdateToken(c, getOk, code, userId, newToken, isHost) ==
    KVBegin(c, "update-token", [code |-> code, userId |-> userId, newToken |-> newToken,
                                isHost |-> isHost],
            kvUpdateToken(kv, getOk, code, userId, newToken, isHost, now))

KVRequestPlay(c, getOk, code, track, requestedBy, requestedById) ==
    KVBegin(c, "request-play",
            [code |-> code, track |-> track, requestedBy |-> requestedBy,
             requestedById |-> requestedById],
            kvRequestPlay(kv, getOk, code, track, requestedBy, requestedById, now))

KVClearRequest(c, getOk, code, trackId) ==
    KVBegin(c, "clear-request", [code |-> code, trackId |-> trackId],
            kvClearRequest(kv, getOk, code, trackId, now))

(* case 'end': one await, of deleteSession, then the response *)
KVUpdateSettings(c, getOk, code, settings) ==
    KVBegin(c, "updateSettings", [code |-> code, settings |-> settings],
            kvUpdateSettings(kv, getOk, code, settings, now))

KVEnd(code, delOk) ==
    /\ backend = "kv"
    /\ IF ~TruthyCode(code)
       THEN /\ KVRespond("end", [code |-> code], 400, [error |-> "Session code required"])
            /\ UNCHANGED kv
       ELSE LET del == deleteSession(kv, code, delOk)
            IN /\ kv' = del.store
               /\ KVRespond("end", [code |-> code], 200,
                            [success |-> del.deleted,
                             message |-> IF del.deleted THEN "Session ended"
                                         ELSE "Session not found"])
    /\ UNCHANGED <<sessions, now, inflight, sync, backend, proxy, client>>

KVGet(c, getOk, code) ==
    KVBegin(c, "get", [code |-> code], kvGet(kv, getOk, code, now))

KVReact(c, getOk, code, emoji, userName, userId) ==
    KVBegin(c, "react", [code |-> code, emoji |-> emoji, userName |-> userName,
                         userId |-> userId],
            kvReact(kv, getOk, code, emoji, userName, userId, now))

-----------------------------------------------------------------------------
(* The Sync endpoint (sync.js).  One fetch per token is started by
   tokens.map; each settles on its own; Promise.all resolves with the results
   in token order once all have settled, or rejects as soon as one rejects. *)

(* What the player API does with one call: the fetch throws (network), or
   answers 204, 200 with a playback state, 401 with a JSON error body, or 502
   with a body that is no JSON *)
Throws == [kind |-> "throws"]
Answered(status, body) == [kind |-> "response", status |-> status, body |-> body]
StateBody(position) == [json |-> TRUE, is_playing |-> TRUE, progress_ms |-> position]
ErrorBody == [json |-> TRUE, error |-> [message |-> "The access token expired"]]
HtmlBody == [json |-> FALSE]
ResponseOk(r) == r.status >= 200 /\ r.status <= 299

Fulfilled(value) == [rejected |-> FALSE, value |-> value]
Rejected == [rejected |-> TRUE, value |-> NullObj]
Pending == [rejected |-> FALSE, value |-> [pending |-> TRUE]]

(* A play-sync callback without its try/catch: a throwing fetch rejects it *)
playOneNoCatch(o) ==
    IF o.kind = "throws" THEN Rejected
    ELSE IF ResponseOk(o)
    THEN Fulfilled([success |-> TRUE, status |-> o.status, error |-> Undefined])
    ELSE IF o.body.json
    THEN Fulfilled([success |-> FALSE, status |-> o.status, error |-> o.body.error.message])
    ELSE Rejected

(* play-sync, the callback of tokens.map: response.json() on a failure; when
   that throws, response.text() throws too (the body is used) and the outer
   catch answers *)
playOne(o) ==
    IF o.kind = "throws" THEN Fulfilled([success |-> FALSE, error |-> "fetch failed"])
    ELSE IF ResponseOk(o)
    THEN Fulfilled([success |-> TRUE, status |-> o.status, error |-> Undefined])
    ELSE IF o.body.json
    THEN Fulfilled([success |-> FALSE, status |-> o.status, error |-> o.body.error.message])
    ELSE Fulfilled([success |-> FALSE, error |-> "body used already"])

(* pause-sync, resume-sync *)
statusOne(o) ==
    IF o.kind = "throws" THEN Fulfilled([success |-> FALSE, error |-> "fetch failed"])
    ELSE Fulfilled([success |-> ResponseOk(o), status |-> o.status])

(* seek-sync, skip-sync *)
okOne(o) ==
    IF o.kind = "throws" THEN Fulfilled([success |-> FALSE, error |-> "fetch failed"])
    ELSE Fulfilled([success |-> ResponseOk(o)])

(* get-states; a field whose value is undefined is left out of the record *)
stateOne(index, o) ==
    IF o.kind = "throws" THEN Fulfilled([user |-> index, error |-> "fetch failed"])
    ELSE IF o.status = 204 THEN Fulfilled([user |-> index, playing |-> FALSE])
    ELSE IF ~o.body.json THEN Fulfilled([user |-> index, error |-> "Unexpected token"])
    ELSE IF "progress_ms" \in DOMAIN o.body
    THEN Fulfilled([user |-> index, playing |-> o.body.is_playing,
                    position |-> o.body.progress_ms])
    ELSE Fulfilled([user |-> index])

PerToken(action, index, o) ==
    CASE action = "play-sync" -> playOne(o)
      [] action \in {"pause-sync", "resume-sync"} -> statusOne(o)
      [] action \in {"seek-sync", "skip-sync"} -> okOne(o)
      [] action = "get-states" -> stateOne(index, o)

SyncActions ==
    {"play-sync", "pause-sync", "resume-sync", "seek-sync", "skip-sync", "get-states"}

Values(results) == [i \in 1..Len(results) |-> results[i].value]
CountOk(values) == Cardinality({i \in 1..Len(values) : values[i].success})
SetMax(S) == CHOOSE x \in S : \A y \in S : y <= x
SetMin(S) == CHOOSE x \in S : \A y \in S : x <= y
HasPosition(st) == "position" \in DOMAIN st

(* A progress_ms of null (the Web API's "progress_ms: integer or null"),
   written as a number that no position is; Math.max and Math.min convert
   their arguments to numbers, and null to 0 *)
NullMs == -1
ToNumber(v) == IF v = NullMs THEN 0 ELSE v

(* get-states: states.filter(s => s.position !== undefined), then
   Math.max(...positions) - Math.min(...positions), or 0 *)
MaxDrift(states) ==
    LET positions == {ToNumber(states[i].position) :
                         i \in {j \in 1..Len(states) : HasPosition(states[j])}}
    IN IF positions = {} THEN 0 ELSE SetMax(positions) - SetMin(positions)

SyncQuality(maxDrift) ==
    IF maxDrift < 1000 THEN "excellent" ELSE IF maxDrift < 3000 THEN "good" ELSE "poor"

(* The body sent once Promise.all has resolved *)
SyncBody(action, values) ==
    CASE action = "play-sync" ->
            [success |-> CountOk(values) > 0, results |-> values,
             message |-> [synced |-> CountOk(values), of |-> Len(values)]]
      [] action \in {"pause-sync", "resume-sync", "seek-sync", "skip-sync"} ->
            [success |-> TRUE, results |-> values,
             message |-> [synced |-> CountOk(values), of |-> Len(values)]]
      [] action = "get-states" ->
            [states |-> values, syncQuality |-> SyncQuality(MaxDrift(values)),
             driftMs |-> MaxDrift(values)]

(* The request body's tokens: an array, or something that is no array; its
   position: the sequence of zero or one number *)
Arr(items) == [isArray |-> TRUE, truthy |-> TRUE, items |-> items]
NotArray(truthy) == [isArray |-> FALSE, truthy |-> truthy, items |-> << >>]
NoPosition == << >>

SyncDone(req, calls, status, body) ==
    [stage |-> "done", req |-> req, calls |-> calls, status |-> status, body |-> body]

NotSettled == [kind |-> "pending"]

(* A handler that checks the token array only, and fans out *)
syncHandlerTokensOnly(req) ==
    IF ~req.tokens.truthy \/ ~req.tokens.isArray
    THEN SyncDone(req, << >>, 400, [error |-> "Tokens array required"])
    ELSE [stage |-> "fanout", req |-> req,
          calls |-> [i \in 1..Len(req.tokens.items) |-> NotSettled]]

(* The handler up to the first await: validation, then one fetch per token *)
syncHandler(req) ==
    IF ~req.tokens.truthy \/ ~req.tokens.isArray
    THEN SyncDone(req, << >>, 400, [error |-> "Tokens array required"])
    ELSE IF req.action = "play-sync" /\ ~TruthyStr(req.trackUri)
    THEN SyncDone(req, << >>, 400, [error |-> "Track URI required"])
    ELSE IF req.action = "seek-sync" /\ req.position = NoPosition
    THEN SyncDone(req, << >>, 400, [error |-> "Position required"])
    ELSE IF req.action \notin SyncActions
    THEN SyncDone(req, << >>, 400, [error |-> "Invalid action"])
    ELSE [stage |-> "fanout", req |-> req,
          calls |-> [i \in 1..Len(req.tokens.items) |-> NotSettled]]

SyncStage == IF sync = NullObj THEN "idle" ELSE sync.stage

SyncRequest(action, tokens, trackUri, position) ==
    /\ SyncStage # "fanout"
    /\ sync' = syncHandler([action |-> action, tokens |-> tokens,
                            trackUri |-> trackUri, position |-> position])
    /\ UNCHANGED <<sessions, now, resp, prev, kv, inflight, backend, proxy, client>>

(* One outbound call settles *)
SyncSettle(i, o) ==
    /\ SyncStage = "fanout"
    /\ i \in 1..Len(sync.calls)
    /\ sync.calls[i] = NotSettled
    /\ sync' = [sync EXCEPT !.calls[i] = o]
    /\ UNCHANGED <<sessions, now, resp, prev, kv, inflight, backend, proxy, client>>

Results(s) ==
    [i \in 1..Len(s.calls) |->
        IF s.calls[i] = NotSettled THEN Pending
        ELSE PerToken(s.req.action, i - 1, s.calls[i])]

(* Promise.all settles: resolved once every callback has, rejected as soon
   as one has; a rejection is caught by the handler's outer catch *)
SyncRespond ==
    /\ SyncStage = "fanout"
    /\ LET results == Results(sync)
           rejected == \E i \in 1..Len(results) : results[i].rejected
       IN /\ rejected \/ \A i \in 1..Len(results) : sync.calls[i] # NotSettled
          /\ sync' = IF rejected
                     THEN SyncDone(sync.req, sync.calls, 500,
                                   [error |-> "Sync operation failed"])
                     ELSE SyncDone(sync.req, sync.calls, 200,
                                   SyncBody(sync.req.action, Values(results)))
    /\ UNCHANGED <<sessions, now, resp, prev, kv, inflight, backend, proxy, client>>

(* The handler from its first line: const { tokens, trackUri, position } =
   body comes before the try, and body is req.body as it is; destructuring a
   body that is null or undefined throws a TypeError that nothing catches *)
SyncThrew(action) == [stage |-> "threw", req |-> [action |-> action], calls |-> << >>]

syncEntry(action, body) ==
    IF body = NullObj THEN SyncThrew(action)
    ELSE syncHandler([action |-> action, tokens |-> body.tokens,
                      trackUri |-> body.trackUri, position |-> body.position])

SyncInvoke(action, body) ==
    /\ SyncStage # "fanout"
    /\ sync' = syncEntry(action, body)
    /\ UNCHANGED <<sessions, now, resp, prev, kv, inflight, backend, proxy, client>>

-----------------------------------------------------------------------------
(* The Playback proxy (part_000).  One fetch to the Web API per request; its
   outcome is a thrown error or a response with a status and a body. *)

PlaybackActions ==
    {"play", "pause", "next", "previous", "volume", "current", "devices", "queue"}

NoUpstream == [kind |-> "none"]
ProxyDone(req, upstream, status, body) ==
    [stage |-> "done", req |-> req, upstream |-> upstream, status |-> status, body |-> body]

(* The handler up to its fetch *)
playbackHandler(req) ==
    IF ~TruthyStr(req.token)
    THEN ProxyDone(req, NoUpstream, 401, [error |-> "Token required"])
    ELSE IF req.action = "queue" /\ ~TruthyStr(req.uri)
    THEN ProxyDone(req, NoUpstream, 400, [error |-> "Track URI required"])
    ELSE IF req.action \notin PlaybackActions
    THEN ProxyDone(req, NoUpstream, 400, [error |-> "Invalid action"])
    ELSE [stage |-> "fetch", req |-> req, upstream |-> NoUpstream]

(* The handler from the fetch on: 'current' and 'devices' answer from the
   body they read, the others from the status; response.json() throws on a
   body that is no JSON, and the outer catch answers 500 *)
playbackAnswer(action, o) ==
    IF o.kind = "throws" THEN [status |-> 500, body |-> [error |-> "Playback control failed"]]
    ELSE IF action = "current"
    THEN IF o.status = 204
         THEN [status |-> 200, body |-> [isPlaying |-> FALSE, track |-> NullObj]]
         ELSE IF ~o.body.json
         THEN [status |-> 500, body |-> [error |-> "Playback control failed"]]
         ELSE [status |-> 200,
               body |-> [track |-> IF "progress_ms" \in DOMAIN o.body
                                   THEN [progress |-> o.body.progress_ms]
                                   ELSE [k \in {} |-> Undefined]]]
    ELSE IF action = "devices"
    THEN IF ~o.body.json
         THEN [status |-> 500, body |-> [error |-> "Playback control failed"]]
         ELSE [status |-> 200, body |-> o.body]
    ELSE IF o.status = 204 \/ o.status = 200
    THEN [status |-> 200, body |-> [success |-> TRUE]]
    ELSE IF ~o.body.json
    THEN [status |-> 500, body |-> [error |-> "Playback control failed"]]
    ELSE [status |-> o.status, body |-> [error |-> o.body]]

ProxyStage == IF proxy = NullObj THEN "idle" ELSE proxy.stage

PlaybackRequest(action, token, uri) ==
    /\ ProxyStage # "fetch"
    /\ proxy' = playbackHandler([action |-> action, token |-> token, uri |-> uri])
    /\ UNCHANGED <<sessions, now, resp, prev, kv, inflight, sync, backend, client>>

(* The fetch settles and the handler answers *)
PlaybackSettle(o) ==
    /\ ProxyStage = "fetch"
    /\ LET answer == playbackAnswer(proxy.req.action, o)
       IN proxy' = ProxyDone(proxy.req, o, answer.status, answer.body)
    /\ UNCHANGED <<sessions, now, resp, prev, kv, inflight, sync, backend, client>>

-----------------------------------------------------------------------------
(* Inputs *)

Draw1 == <<0, 1, 2, 24, 25, 26>>
Draw2 == <<23, 23, 31, 31, 7, 8>>
Code1 == generateSessionCode(Draw1)
Code2 == generateSessionCode(Draw2)
UnknownCode == <<"Q", "Q", "Q", "Q", "Q", "Q">>

(* a code as clients send it: as issued, lower-cased, mixed, absent, never issued *)
CodeInputs(c) == {c, toLowerCase(c), MixedCase(c), NoCode, UnknownCode}
NameOf(u) == IF u = "u1" THEN "Ann" ELSE IF u = "u2" THEN "Bob" ELSE Undefined
TrackInputs == {TrackObj(id) : id \in TrackIds} \cup {NullObj}
SettingsInputs ==
    {[allowGuestRemove |-> b] : b \in BOOLEAN} \cup {[allowVoting |-> b] : b \in BOOLEAN}
        \cup {NullObj}

InitServer ==
    /\ sessions = EmptyMap
    /\ prev = EmptyMap
    /\ now = 0
    /\ resp = NoResponse
    /\ kv = EmptyMap
    /\ inflight = [c \in Clients |-> Idle]
    /\ sync = NullObj
    /\ proxy = NullObj

InitStores == InitServer /\ client = NullObj

Init == InitStores /\ backend = "memory"

(* Requests that the validation or the lookup turns away, one of each shape *)
BadCodes == {NoCode, UnknownCode}

(* Spec: queueing and voting by two users on one session of the in-process store *)
Next ==
    \/ Create(HostToken, Undefined, HostUser, Draw1)
    \/ \E track \in TrackInputs, u \in Users :
            AddTrack(Code1, track, NameOf(u), u)
    \/ \E code \in BadCodes \cup {toLowerCase(Code1)} :
            AddTrack(code, TrackObj("t1"), NameOf(HostUser), HostUser)
    \/ \E trackId \in TrackIds \cup {Undefined}, u \in Users :
            Vote(Code1, trackId, u)
    \/ \E code \in BadCodes \cup {toLowerCase(Code1)} :
            Vote(code, "t1", HostUser)
    \/ RemoveTrack(Code1, "t1", HostUser, TRUE)

Spec == Init /\ [][Next]_vars

(* SpecCreate: two codes can be drawn; sessions are created, filled, read
   back under every spelling of their code, and created again *)
NextCreate ==
    \/ \E hostToken \in {HostToken, Undefined}, hostName \in {"Ann", Undefined},
          draw \in RandomDraws :
            Create(hostToken, hostName, HostUser, draw)
    \/ \E code \in CodeInputs(Code1) \cup CodeInputs(Code2) : Get(code)
    \/ \E code \in {Code1, toLowerCase(Code2)}, id \in TrackIds :
            AddTrack(code, TrackObj(id), NameOf(HostUser), HostUser)

SpecCreate == Init /\ [][NextCreate]_vars

(* SpecRemove: tracks queued by two users or by nobody in particular, removed
   by every kind of requester, under both values of allowGuestRemove *)
NextRemove ==
    \/ Create(HostToken, Undefined, HostUser, Draw1)
    \/ \E id \in TrackIds, u \in Users \cup {Undefined} :
            AddTrack(Code1, TrackObj(id), NameOf(u), u)
    \/ \E trackId \in TrackIds \cup {Undefined}, requesterId \in Users \cup {Undefined},
          isHost \in BOOLEAN :
            RemoveTrack(Code1, trackId, requesterId, isHost)
    \/ \E code \in BadCodes \cup {toLowerCase(Code1)} :
            RemoveTrack(code, "t1", HostUser, FALSE)
    \/ \E settings \in SettingsInputs : UpdateSettings(Code1, settings)
    \/ \E code \in BadCodes : UpdateSettings(code, [allowGuestRemove |-> TRUE])

SpecRemove == Init /\ [][NextRemove]_vars

(* The model stops playing tracks once a history holds MaxHistory entries *)
HistoryRoom(code, n) ==
    code \in DOMAIN sessions => Len(sessions[code].history) < n

(* SpecPlay: the host queues tracks and plays them, by playNext and by
   update-track *)
NextPlay ==
    \/ Create(HostToken, Undefined, HostUser, Draw1)
    \/ \E id \in TrackIds : AddTrack(Code1, TrackObj(id), NameOf(HostUser), HostUser)
    \/ \E code \in BadCodes \cup {Code1, toLowerCase(Code1)} :
            HistoryRoom(Code1, MaxHistory) /\ PlayNext(code)
    \/ \E track \in {NullObj, TrackObj("t1")} :
            HistoryRoom(Code1, MaxHistory) /\ UpdateTrack(Code1, track)
    \/ \E code \in BadCodes : UpdateTrack(code, NullObj)

SpecPlay == Init /\ [][NextPlay]_vars

(* One user queues, votes and removes *)
NextHostQueue ==
    \/ Create(HostToken, Undefined, HostUser, Draw1)
    \/ \E id \in TrackIds : AddTrack(Code1, TrackObj(id), NameOf(HostUser), HostUser)
    \/ \E id \in TrackIds : Vote(Code1, id, HostUser)
    \/ \E id \in TrackIds : RemoveTrack(Code1, id, HostUser, TRUE)

(* SpecSorted: one user queues, votes, removes and plays *)
NextSorted ==
    \/ NextHostQueue
    \/ HistoryRoom(Code1, MaxHistory) /\ PlayNext(Code1)

SpecSorted == Init /\ [][NextSorted]_vars

(* SpecHistory: one track is queued and played over and over, until the
   history is past its cap *)
NextHistory ==
    \/ Create(HostToken, Undefined, HostUser, Draw1)
    \/ AddTrack(Code1, TrackObj("t1"), NameOf(HostUser), HostUser)
    \/ HistoryRoom(Code1, HistoryCap + 2) /\ PlayNext(Code1)
    \/ HistoryRoom(Code1, HistoryCap + 2) /\ UpdateTrack(Code1, NullObj)

SpecHistory == Init /\ [][NextHistory]_vars

(* SpecKV: two clients queue, vote and remove on one session of the KV
   store, their handlers interleaved; the store may fail any call *)
KVTracks == {"t1", "t2"}

NextKV ==
    \/ \E hostToken \in {HostToken, Undefined}, setOk \in BOOLEAN :
            KVCreate(hostToken, Undefined, HostUser, Draw1, setOk)
    \/ \E c \in Clients, getOk \in BOOLEAN, id \in KVTracks :
            KVAddTrack(c, getOk, Code1, TrackObj(id), NameOf(HostUser), HostUser)
    \/ \E c \in Clients : KVVote(c, TRUE, toLowerCase(Code1), "t1", HostUser)
    \/ \E c \in Clients : KVRemoveTrack(c, TRUE, Code1, "t1", HostUser, TRUE)
    \/ \E c \in Clients, setOk \in BOOLEAN : KVCommit(c, setOk)

InitKV == InitStores /\ backend = "kv"

SpecKV == InitKV /\ [][NextKV]_vars

(* SpecDeploy: either Session API is deployed *)
InitDeploy == InitStores /\ backend \in {"memory", "kv"}

NextDeploy == NextHostQueue \/ NextKV

SpecDeploy == InitDeploy /\ [][NextDeploy]_vars

(* SpecSync: fan-out requests of every action over up to MaxTokens tokens;
   each outbound call settles in any order with any outcome *)
AllTokens == <<"tokA", "tokB", "tokC", "tokD", "tokE">>
TokenArrays == {Arr(SubSeq(AllTokens, 1, n)) : n \in 0..MaxTokens}
TokenInputs == TokenArrays \cup {NotArray(FALSE), NotArray(TRUE)}
CallOutcomes ==
    {Throws, Answered(204, HtmlBody), Answered(200, StateBody(500)),
     Answered(200, StateBody(4000)), Answered(401, ErrorBody), Answered(502, HtmlBody)}

NextSync ==
    \/ \E action \in SyncActions, tokens \in TokenArrays :
            SyncRequest(action, tokens, "spotify:track:1", <<0>>)
    \/ \E action \in {"play-sync", "seek-sync", "bogus"}, tokens \in TokenInputs :
            SyncRequest(action, tokens, Undefined, NoPosition)
    \/ \E i \in 1..MaxTokens, o \in CallOutcomes : SyncSettle(i, o)
    \/ SyncRespond

SpecSync == Init /\ [][NextSync]_vars

(* Time passes between requests: Date.now() is half a day later *)
HalfDayMs == MaxAgeMs \div 2

Tick ==
    /\ now < MaxTicks * HalfDayMs
    /\ now' = now + HalfDayMs
    /\ UNCHANGED <<sessions, resp, prev, kv, inflight, sync, backend, proxy, client>>

(* SpecExpiry: a session is created and tracks are queued on it, over either
   store, while time passes *)
NextExpiry ==
    \/ Tick
    \/ Create(HostToken, Undefined, HostUser, Draw1)
    \/ \E id \in KVTracks : AddTrack(Code1, TrackObj(id), NameOf(HostUser), HostUser)
    \/ KVCreate(HostToken, Undefined, HostUser, Draw1, TRUE)
    \/ \E id \in KVTracks :
            KVAddTrack("A", TRUE, Code1, TrackObj(id), NameOf(HostUser), HostUser)
    \/ KVCommit("A", TRUE)

SpecExpiry == InitDeploy /\ [][NextExpiry]_vars

(* SpecAbsent: guests join, leave and refresh their token on a session that
   exists, and on codes that have none, over either store *)
NextAbsent ==
    \/ Create(HostToken, Undefined, HostUser, Draw1)
    \/ Join(Code1, "Bob", "u2", "tok-u2")
    \/ \E code \in {Code1, UnknownCode, NoCode}, guestId \in {"u2", Undefined} :
            Leave(code, guestId)
    \/ \E code \in {Code1, UnknownCode} : UpdateToken(code, "u2", "tok-new", FALSE)
    \/ KVCreate(HostToken, Undefined, HostUser, Draw1, TRUE)
    \/ \E c \in Clients : KVJoin(c, TRUE, Code1, "Bob", "u2", "tok-u2")
    \/ \E c \in Clients, getOk \in BOOLEAN, code \in {Code1, UnknownCode, NoCode} :
            KVLeave(c, getOk, code, "u2")
    \/ \E c \in Clients, code \in {toLowerCase(Code1), UnknownCode},
          newToken \in {"tok-new", Undefined}, isHost \in BOOLEAN :
            KVUpdateToken(c, TRUE, code, "u2", newToken, isHost)
    \/ \E c \in Clients : KVCommit(c, TRUE)

SpecAbsent == InitDeploy /\ [][NextAbsent]_vars

(* The model stops reacting once a session holds n reactions *)
ReactionRoom(code, n) ==
    code \in DOMAIN sessions => Len(sessions[code].reactions) < n

(* SpecLeak: every action of the Session API, on a session with a host and
   a guest, with a token or without; one track, one reaction, one request *)
NextLeak ==
    \/ Create(HostToken, "Ann", HostUser, Draw1)
    \/ \E guestToken \in {"tok-u2", Undefined} :
            Join(toLowerCase(Code1), "Bob", "u2", guestToken)
    \/ Get(Code1)
    \/ AddTrack(Code1, TrackObj("t1"), NameOf("u2"), "u2")
    \/ Vote(Code1, "t1", HostUser)
    \/ RemoveTrack(Code1, "t1", "u2", FALSE)
    \/ HistoryRoom(Code1, 1) /\ UpdateTrack(Code1, TrackObj("t2"))
    \/ ReactionRoom(Code1, 1) /\ React(Code1, "fire", "Bob", "u2")
    \/ RequestPlay(Code1, TrackObj("t1"), "Bob", "u2")
    \/ ClearRequestOf(Code1, "t1")
    \/ UpdateSettings(Code1, [allowGuestRemove |-> TRUE])
    \/ Leave(Code1, "u2")
    \/ GetAllTokens(Code1)
    \/ HistoryRoom(Code1, 1) /\ PlayNext(Code1)

SpecLeak == Init /\ [][NextLeak]_vars

(* SpecGuests: guests join, with a token or without, under a name or
   without, join again, leave and come back; the tokens are collected by
   get-all-tokens and by playNext.  Over the KV store two clients' joins and
   leaves interleave. *)
GuestIds == {"u2", "u3"}
GuestTokenOf(id) == IF id = "u2" THEN "tok-u2" ELSE "tok-u3"

NextGuests ==
    \/ Create(HostToken, Undefined, HostUser, Draw1)
    \/ \E guestId \in GuestIds, withToken \in BOOLEAN :
            Join(Code1, NameOf(guestId), guestId,
                 IF withToken THEN GuestTokenOf(guestId) ELSE Undefined)
    \/ Join(toLowerCase(Code1), Undefined, Undefined, "tok-anon")
    \/ \E guestId \in GuestIds : Leave(Code1, guestId)
    \/ \E code \in {Code1, UnknownCode} : GetAllTokens(code)
    \/ AddTrack(Code1, TrackObj("t1"), NameOf(HostUser), HostUser)
    \/ HistoryRoom(Code1, 1) /\ PlayNext(Code1)
    \/ KVCreate(HostToken, Undefined, HostUser, Draw1, TRUE)
    \/ \E c \in Clients, guestId \in GuestIds :
            KVJoin(c, TRUE, Code1, NameOf(guestId), guestId, GuestTokenOf(guestId))
    \/ \E c \in Clients : KVLeave(c, TRUE, Code1, "u2")
    \/ \E c \in Clients : KVCommit(c, TRUE)

SpecGuests == InitDeploy /\ [][NextGuests]_vars

(* Time passes between requests: Date.now() is 2.5 seconds later *)
Elapse ==
    /\ now < MaxTicks * (ReactionTtlMs \div 2)
    /\ now' = now + ReactionTtlMs \div 2
    /\ UNCHANGED <<sessions, resp, prev, kv, inflight, sync, backend, proxy, client>>

(* SpecReact: reactions are sent and read while time passes, between other
   requests *)
NextReact ==
    \/ Create(HostToken, Undefined, HostUser, Draw1)
    \/ \E userId \in Users :
            ReactionRoom(Code1, 2) /\ React(Code1, "fire", NameOf(userId), userId)
    \/ \E code \in BadCodes, emoji \in {"fire", Undefined} :
            React(code, emoji, Undefined, Undefined)
    \/ \E code \in {Code1, toLowerCase(Code1)} : Get(code)
    \/ Join(Code1, "Bob", "u2", "tok-u2")
    \/ Vote(Code1, "t1", HostUser)
    \/ ClearRequestOf(Code1, "t1")
    \/ Elapse

SpecReact == Init /\ [][NextReact]_vars

(* SpecReactCap: reactions are sent until the list is full and past that;
   time passes between the first few *)
NextReactCap ==
    \/ Create(HostToken, Undefined, HostUser, Draw1)
    \/ React(toLowerCase(Code1), "fire", "Ann", "u1")
    \/ ReactionRoom(Code1, 3) /\ Elapse

SpecReactCap == Init /\ [][NextReactCap]_vars

(* SpecRequests: play requests are made and cleared, on either backend; on
   the KV store two clients' requests interleave *)
NextRequests ==
    \/ Create(HostToken, Undefined, HostUser, Draw1)
    \/ \E code \in {toLowerCase(Code1), UnknownCode}, track \in TrackInputs,
          requestedBy \in {"Bob", Undefined} :
            RequestPlay(code, track, requestedBy, "u2")
    \/ \E code \in {Code1, NoCode}, trackId \in TrackIds \cup {Undefined} :
            ClearRequestOf(code, trackId)
    \/ KVCreate(HostToken, Undefined, HostUser, Draw1, TRUE)
    \/ \E c \in Clients, track \in TrackInputs :
            KVRequestPlay(c, TRUE, Code1, track, "Bob", "u2")
    \/ \E c \in Clients, trackId \in TrackIds :
            KVClearRequest(c, TRUE, toLowerCase(Code1), trackId)
    \/ \E c \in Clients : KVCommit(c, TRUE)

SpecRequests == InitDeploy /\ [][NextRequests]_vars

(* SpecActivity: one session per store, created once; requests that set
   lastActivity and requests that do not, while time passes; on the KV store
   two clients' reads and writes interleave *)
NextActivity ==
    \/ sessions = EmptyMap /\ Create(HostToken, Undefined, HostUser, Draw1)
    \/ AddTrack(Code1, TrackObj("t1"), "Ann", "u1")
    \/ ReactionRoom(Code1, 1) /\ React(Code1, "fire", "Ann", "u1")
    \/ ClearRequestOf(Code1, "t1")
    \/ Get(Code1)
    \/ kv = EmptyMap /\ KVCreate(HostToken, Undefined, HostUser, Draw1, TRUE)
    \/ KVAddTrack("A", TRUE, Code1, TrackObj("t1"), "Ann", "u1")
    \/ /\ Code1 \in DOMAIN kv => kv[Code1].session.reactions = << >>
       /\ KVReact("A", TRUE, Code1, "fire", "Ann", "u1")
    \/ KVClearRequest("B", TRUE, Code1, "t1")
    \/ KVGet("B", TRUE, Code1)
    \/ \E c \in Clients : KVCommit(c, TRUE)
    \/ now <= ReactionTtlMs \div 2 /\ Elapse

SpecActivity == InitDeploy /\ [][NextActivity]_vars

(* SpecEntry: requests to the Sync endpoint with a body and without one,
   and requests to the Session API, as the handlers receive them *)
NextEntry ==
    \/ \E action \in SyncActions \cup {"bogus"} : SyncInvoke(action, NullObj)
    \/ \E action \in {"pause-sync", "get-states"}, tokens \in TokenInputs :
            SyncInvoke(action, [tokens |-> tokens, trackUri |-> Undefined,
                                position |-> NoPosition])
    \/ \E i \in 1..MaxTokens, o \in {Throws, Answered(204, HtmlBody)} : SyncSettle(i, o)
    \/ SyncRespond
    \/ \E hostToken \in {HostToken, Undefined} :
            Create(hostToken, Undefined, HostUser, Draw1)
    \/ \E code \in {Code1, NoCode} : Get(code)

SpecEntry == Init /\ [][NextEntry]_vars

(* SpecStates: get-states over up to MaxTokens tokens; a player answers
   with a position, with a null position, with no content, or not at all *)
StateOutcomes ==
    {Throws, Answered(204, HtmlBody), Answered(401, ErrorBody),
     Answered(200, StateBody(500)), Answered(200, StateBody(2000)),
     Answered(200, StateBody(4000)), Answered(200, StateBody(NullMs))}

NextStates ==
    \/ \E tokens \in TokenArrays : SyncRequest("get-states", tokens, Undefined, NoPosition)
    \/ \E i \in 1..MaxTokens, o \in StateOutcomes : SyncSettle(i, o)
    \/ SyncRespond

SpecStates == Init /\ [][NextStates]_vars

(* SpecPlayback: every action of the Playback proxy, with a token and
   without, against every kind of upstream answer *)
UpstreamOutcomes ==
    {Throws, Answered(204, HtmlBody), Answered(200, StateBody(500)),
     Answered(202, HtmlBody), Answered(401, ErrorBody), Answered(404, ErrorBody),
     Answered(502, HtmlBody)}

NextPlayback ==
    \/ \E action \in PlaybackActions \cup {"bogus"}, token \in {"tokA", Undefined},
          uri \in {"spotify:track:1", Undefined} :
            PlaybackRequest(action, token, uri)
    \/ \E o \in UpstreamOutcomes : PlaybackSettle(o)

SpecPlayback == Init /\ [][NextPlayback]_vars

(* SpecEnd: sessions are created, used, ended and looked up, on either
   backend; on the KV store a request may have read the record when end runs *)
NextEnd ==
    \/ Create(HostToken, Undefined, HostUser, Draw1)
    \/ ReactionRoom(Code1, 1) /\ React(Code1, "fire", "Ann", "u1")
    \/ \E code \in {Code1, toLowerCase(Code1), UnknownCode, NoCode} : End(code)
    \/ \E code \in {Code1, UnknownCode} : Get(code)
    \/ KVCreate(HostToken, Undefined, HostUser, Draw1, TRUE)
    \/ /\ Code1 \in DOMAIN kv => kv[Code1].session.reactions = << >>
       /\ KVReact("A", TRUE, Code1, "fire", "Ann", "u1")
    \/ KVAddTrack("B", TRUE, Code1, TrackObj("t1"), "Ann", "u1")
    \/ \E code \in {Code1, toLowerCase(Code1), UnknownCode, NoCode}, delOk \in BOOLEAN :
            KVEnd(code, delOk)
    \/ \E code \in {Code1, UnknownCode} : KVGet("B", TRUE, code)
    \/ \E c \in Clients : KVCommit(c, TRUE)

SpecEnd == InitDeploy /\ [][NextEnd]_vars

(* SpecSerial: two users' requests on one session of the in-process store,
   in every order of arrival; a handler of session.js has no await, so a
   request is served whole before the next one starts *)
NextSerial ==
    \/ Create(HostToken, Undefined, HostUser, Draw1)
    \/ \E id \in KVTracks, u \in Users : AddTrack(Code1, TrackObj(id), NameOf(u), u)
    \/ \E id \in KVTracks, u \in Users : Vote(toLowerCase(Code1), id, u)
    \/ Vote(Code1, "t1", Undefined)
    \/ \E code \in {Code1, UnknownCode} : Get(code)

SpecSerial == Init /\ [][NextSerial]_vars

(* end, playNext and updateSettings as a participant sends them: the
   request says nothing of its sender that the handler reads (the cases
   destructure code, and settings, only), so the sender is noted beside the
   request and the handler is the same for everyone *)
EndBy(caller, code) ==
    Serve("end", [code |-> code, caller |-> caller],
          endHandler(cleanOldSessions(sessions, now), code, now))

PlayNextBy(caller, code) ==
    Serve("playNext", [code |-> code, caller |-> caller],
          playNextHandler(cleanOldSessions(sessions, now), code, now))

UpdateSettingsBy(caller, code, settings) ==
    Serve("updateSettings", [code |-> code, settings |-> settings, caller |-> caller],
          updateSettingsHandler(cleanOldSessions(sessions, now), code, settings, now))

(* SpecHost: a host and a guest; either sends the requests that are the
   host's *)
NextHost ==
    \/ Create(HostToken, "Ann", HostUser, Draw1)
    \/ Join(Code1, "Bob", "u2", Undefined)
    \/ AddTrack(Code1, TrackObj("t1"), "Bob", "u2")
    \/ \E caller \in Users : EndBy(caller, Code1)
    \/ \E caller \in Users : HistoryRoom(Code1, 1) /\ PlayNextBy(caller, Code1)
    \/ \E caller \in Users, allow \in BOOLEAN :
            UpdateSettingsBy(caller, toLowerCase(Code1), [allowVoting |-> allow])

SpecHost == Init /\ [][NextHost]_vars

(* More than 24 hours pass at once *)
DayPasses ==
    /\ now = 0
    /\ now' = now + MaxAgeMs + 1
    /\ UNCHANGED <<sessions, resp, prev, kv, inflight, sync, backend, proxy, client>>

(* SpecErrors: one session with a guest, a track, a request; every case of
   the Session API is sent requests that it turns away: a field missing, a
   code unknown, a track unknown or queued already, a requester not allowed,
   voting disabled, a queue that is empty; time passes, so that a request
   may find its session too old *)
NextErrors ==
    \/ \E hostToken \in {HostToken, Undefined} : Create(hostToken, "Ann", HostUser, Draw1)
    \/ \E code \in {Code1, NoCode, UnknownCode} : Join(code, "Bob", "u2", "tok-u2")
    \/ \E code \in {Code1, NoCode, UnknownCode} : Get(code)
    \/ \E code \in {UnknownCode, NoCode} : GetAllTokens(code)
    \/ \E code \in {Code1, UnknownCode}, track \in {TrackObj("t1"), NullObj} :
            AddTrack(code, track, "Bob", "u2")
    \/ \E code \in {Code1, UnknownCode}, trackId \in {"t1", "t2", Undefined} :
            Vote(code, trackId, HostUser)
    \/ \E code \in {Code1, UnknownCode}, trackId \in {"t1", "t2", Undefined},
          isHost \in BOOLEAN :
            RemoveTrack(code, trackId, HostUser, isHost)
    \/ \E code \in BadCodes : UpdateTrack(code, TrackObj("t1"))
    \/ \E code \in BadCodes \cup {Code1} : HistoryRoom(Code1, 1) /\ PlayNext(code)
    \/ \E code \in {Code1, UnknownCode}, emoji \in {Undefined} :
            React(code, emoji, "Bob", "u2")
    \/ React(UnknownCode, "fire", "Bob", "u2")
    \/ \E code \in {Code1, UnknownCode}, track \in {TrackObj("t1"), NullObj} :
            RequestPlay(code, track, "Bob", "u2")
    \/ \E code \in BadCodes : ClearRequestOf(code, "t1")
    \/ \E code \in {Code1, UnknownCode},
          settings \in {[allowVoting |-> FALSE], [allowVoting |-> TRUE], NullObj} :
            UpdateSettings(code, settings)
    \/ End(NoCode)
    \/ \E code \in BadCodes : Leave(code, "u2")
    \/ UpdateToken(Code1, "u2", "tok-new", FALSE)
    \/ DayPasses

SpecErrors == Init /\ [][NextErrors]_vars

(* SpecVoting: the host switches voting off and on, over either store, while
   tracks are queued and voted on; the track t2 is queued only while voting
   is off *)
VotingOff(S) == Code1 \in DOMAIN S /\ ~S[Code1].settings.allowVoting
VotingOffKV == Code1 \in DOMAIN kv /\ ~kv[Code1].session.settings.allowVoting

NextVoting ==
    \/ Create(HostToken, "Ann", HostUser, Draw1)
    \/ AddTrack(Code1, TrackObj("t1"), "Bob", "u2")
    \/ VotingOff(sessions) /\ AddTrack(Code1, TrackObj("t2"), "Bob", "u2")
    \/ \E trackId \in {"t1", "t2", Undefined}, voterId \in {HostUser, Undefined} :
            Vote(toLowerCase(Code1), trackId, voterId)
    \/ \E allow \in BOOLEAN : UpdateSettings(Code1, [allowVoting |-> allow])
    \/ KVCreate(HostToken, "Ann", HostUser, Draw1, TRUE)
    \/ \E c \in Clients : KVAddTrack(c, TRUE, Code1, TrackObj("t1"), "Bob", "u2")
    \/ VotingOffKV /\ KVAddTrack("A", TRUE, Code1, TrackObj("t2"), "Bob", "u2")
    \/ \E c \in Clients, trackId \in {"t1", "t2", Undefined} :
            KVVote(c, TRUE, Code1, trackId, HostUser)
    \/ \E allow \in BOOLEAN : KVUpdateSettings("A", TRUE, Code1, [allowVoting |-> allow])
    \/ \E c \in Clients : KVCommit(c, TRUE)

SpecVoting == InitDeploy /\ [][NextVoting]_vars

-----------------------------------------------------------------------------
(* The React client, in its two builds: part_001 (axios, leaves after
   LeaveAfter polls answered 404) and frontend/src/App.js (fetch, leaves on
   the first). trail and leftTrail are not in the code: trail notes the polls
   that failed since the last successful poll or join, leftTrail the trail
   that made pollSession call handleLeaveSession *)
LeaveAfter == 5
MaxPollErrors == 1

NewClient(build) ==
    [build |-> build, sessionCode |-> NoCode, isHost |-> FALSE, userId |-> "u2",
     sessionErrorCount |-> 0, leaving |-> FALSE, trail |-> << >>, leftTrail |-> << >>]

Lobby == client.sessionCode = NoCode /\ ~client.leaving

RECURSIVE CountOf(_, _)
CountOf(seq, v) ==
    IF seq = << >> THEN 0
    ELSE (IF Head(seq) = v THEN 1 ELSE 0) + CountOf(Tail(seq), v)

(* handleJoinSession: on success the code is kept and the error count reset *)
handleJoinSession ==
    /\ Lobby
    /\ LET req == [code |-> Code1, guestName |-> "Bob", guestId |-> client.userId,
                   guestToken |-> "tok-u2"]
           out == joinHandler(cleanOldSessions(sessions, now), req.code, req.guestName,
                              req.guestId, req.guestToken, now)
       IN /\ Answer("join", req, out)
          /\ client' = IF out.status = 200
                       THEN [client EXCEPT !.sessionCode = Code1, !.isHost = FALSE,
                                           !.sessionErrorCount = 0,
                                           !.trail = << >>, !.leftTrail = << >>]
                       ELSE client

(* handleCreateSession: on success the code is kept; the error count is not
   touched *)
handleCreateSession ==
    /\ Lobby
    /\ ~Has(sessions, Code1)
    /\ LET req == [hostToken |-> "tok-u2", hostName |-> "Bob", hostId |-> client.userId]
           out == createHandler(cleanOldSessions(sessions, now), req.hostToken,
                                req.hostName, req.hostId, Draw1, now)
       IN /\ Answer("create", req, out)
          /\ client' = IF out.status = 200
                       THEN [client EXCEPT !.sessionCode = out.body.session.code,
                                           !.isHost = TRUE, !.leftTrail = << >>]
                       ELSE client

(* A poll that never looks for a 404 *)
PolledNeverLeaves(c, status) ==
    IF c.build = "part_001" /\ status = 200
    THEN [c EXCEPT !.sessionErrorCount = 0, !.trail = << >>]
    ELSE c

(* A poll that leaves on the first 404 in either build *)
PolledLeavesAtOnce(c, status) ==
    IF status = 200
    THEN [c EXCEPT !.sessionErrorCount = 0, !.trail = << >>]
    ELSE IF status = 404
    THEN [c EXCEPT !.sessionErrorCount = 0, !.leaving = TRUE,
                   !.trail = << >>, !.leftTrail = Append(c.trail, "404")]
    ELSE c

(* What a poll's answer does to the client. part_001: success resets the
   count; a 404 adds one and, at LeaveAfter, calls handleLeaveSession and
   resets. App.js: a 404 calls handleLeaveSession *)
Polled(c, status) ==
    IF c.build = "part_001"
    THEN IF status = 200
         THEN [c EXCEPT !.sessionErrorCount = 0, !.trail = << >>]
         ELSE IF status = 404
         THEN IF c.sessionErrorCount + 1 >= LeaveAfter
              THEN [c EXCEPT !.sessionErrorCount = 0, !.leaving = TRUE,
                             !.trail = << >>, !.leftTrail = Append(c.trail, "404")]
              ELSE [c EXCEPT !.sessionErrorCount = @ + 1, !.trail = Append(@, "404")]
         ELSE c
    ELSE IF status = 404 THEN [c EXCEPT !.leaving = TRUE] ELSE c

(* pollSession, its request answered by the Session API *)
pollSession ==
    /\ client.sessionCode # NoCode
    /\ LET req == [code |-> client.sessionCode]
           out == getHandler(cleanOldSessions(sessions, now), req.code, now)
       IN /\ Answer("get", req, out)
          /\ client' = Polled(client, out.status)

(* pollSession, its request failed with no answer or with another status:
   part_001 neither counts it nor resets the count *)
pollSessionFails ==
    /\ client.sessionCode # NoCode
    /\ client.build = "part_001"
    /\ CountOf(client.trail, "err") < MaxPollErrors
    /\ client' = [client EXCEPT !.trail = Append(@, "err")]
    /\ UNCHANGED <<sessions, now, resp, prev, kv, inflight, sync, backend, proxy>>

(* The leave button: handleLeaveSession is called *)
LeaveButton ==
    /\ client.sessionCode # NoCode /\ ~client.leaving
    /\ client' = [client EXCEPT !.leaving = TRUE]
    /\ UNCHANGED <<sessions, now, resp, prev, kv, inflight, sync, backend, proxy>>

(* handleLeaveSession: end as host, leave as guest, an error of either is
   caught; then the session is forgotten *)
handleLeaveSession ==
    /\ client.leaving
    /\ IF client.isHost
       THEN Answer("end", [code |-> client.sessionCode],
                   endHandler(cleanOldSessions(sessions, now), client.sessionCode, now))
       ELSE Answer("leave", [code |-> client.sessionCode, guestId |-> client.userId],
                   leaveHandler(cleanOldSessions(sessions, now), client.sessionCode,
                                client.userId, now))
    /\ client' = [client EXCEPT !.sessionCode = NoCode, !.isHost = FALSE,
                                !.leaving = FALSE]

(* SpecPolling: a client joins or creates a session and polls it; the host,
   on another device, creates and ends it. No session is created while the
   client still holds the code *)
InitPolling ==
    /\ InitServer /\ backend = "memory"
    /\ client \in {NewClient(build) : build \in {"part_001", "App"}}

NextPolling ==
    \/ Lobby /\ ~Has(sessions, Code1) /\ Create(HostToken, "Ann", HostUser, Draw1)
    \/ Has(sessions, Code1) /\ End(Code1)
    \/ handleJoinSession
    \/ handleCreateSession
    \/ pollSession
    \/ pollSessionFails
    \/ LeaveButton
    \/ handleLeaveSession

SpecPolling == InitPolling /\ [][NextPolling]_vars

(* SpecPollingFair: the poll timer keeps firing and its requests are
   answered; a handleLeaveSession that was called runs to its end *)
SpecPollingFair ==
    InitPolling /\ [][NextPolling]_vars /\ WF_vars(pollSession) /\ WF_vars(handleLeaveSession)

-----------------------------------------------------------------------------
(* The host's play-now flow of the React client (part_001; sync.js holds a
   copy). sessionData is the client's copy of the session, set by polls and
   by the answers of addTrack and removeTrack; a handler works on the
   sessionData of the render in which it was called (seen). started, queued
   and left are not in the code: they note that update-track was sent,
   whether the track was in the server's queue then, and whether it was
   there when the flow ended *)
IdsOf(queue) == [i \in 1..Len(queue) |-> queue[i].id]
TracksOf(requests) == [i \in 1..Len(requests) |-> requests[i].track.id]

HostClient ==
    [sessionCode |-> NoCode, isHost |-> FALSE, userId |-> HostUser,
     sessionData |-> NullObj, pc |-> "idle", flow |-> "none", track |-> Undefined,
     seen |-> NullObj, started |-> FALSE, queued |-> FALSE, left |-> FALSE]

Idling == client.sessionCode # NoCode /\ client.pc = "idle"

(* sessionData?.queue?.find(t => t.id === track.id), on the handler's render *)
SeenInQueue(c) == c.seen # NullObj /\ Includes(c.seen.queue, c.track)

(* The end of handlePlaySynced: clear-request follows in handleAcceptRequest *)
AfterPlaySynced(c) == IF c.flow = "accept" THEN "clear" ELSE "done"

(* The end of the flow, with the note of what the server's queue holds *)
Landed(c, pc, S) ==
    [c EXCEPT !.pc = pc,
              !.left = IF pc = "done"
                       THEN Has(S, c.sessionCode)
                            /\ Includes(IdsOf(S[c.sessionCode].queue), c.track)
                       ELSE @]

HostCreates ==
    /\ client.sessionCode = NoCode
    /\ LET req == [hostToken |-> HostToken, hostName |-> "Ann", hostId |-> client.userId]
           out == createHandler(cleanOldSessions(sessions, now), req.hostToken,
                                req.hostName, req.hostId, Draw1, now)
       IN /\ Answer("create", req, out)
          /\ client' = [client EXCEPT !.sessionCode = out.body.session.code,
                                      !.isHost = TRUE]

(* pollSession: setSessionData(response.data.session) *)
HostPolls ==
    /\ client.sessionCode # NoCode
    /\ LET req == [code |-> client.sessionCode]
           out == getHandler(cleanOldSessions(sessions, now), req.code, now)
       IN /\ Answer("get", req, out)
          /\ client' = IF out.status = 200
                       THEN [client EXCEPT !.sessionData =
                                [queue |-> IdsOf(out.body.session.queue),
                                 history |-> IdsOf(out.body.session.history),
                                 requests |-> TracksOf(out.body.session.playRequests)]]
                       ELSE client

(* A click: Play on a queued track or on a track of the history
   (handlePlaySynced), Add & Play on a search result (handleAddAndPlay), Play
   on a request (handleAcceptRequest) *)
Click(flow, id) ==
    /\ Idling
    /\ client.sessionData # NullObj
    /\ flow = "accept" => Includes(client.sessionData.requests, id)
    /\ flow = "play" => \/ Includes(client.sessionData.queue, id)
                        \/ Includes(client.sessionData.history, id)
    /\ client' = [client EXCEPT !.flow = flow, !.track = id,
                                !.pc = IF flow = "addAndPlay" THEN "add" ELSE "tokens",
                                !.seen = client.sessionData,
                                !.started = FALSE, !.queued = FALSE, !.left = FALSE]
    /\ UNCHANGED <<sessions, now, resp, prev, kv, inflight, sync, backend, proxy>>

(* handleAddToQueue: addTrack; on success the queue of the answer is kept,
   an error is caught *)
FlowAdd ==
    /\ client.pc = "add"
    /\ LET req == [code |-> client.sessionCode, track |-> TrackObj(client.track),
                   addedBy |-> "Ann", addedById |-> client.userId]
           out == addTrackHandler(cleanOldSessions(sessions, now), req.code, req.track,
                                  req.addedBy, req.addedById, now)
       IN /\ Answer("addTrack", req, out)
          /\ client' = [client EXCEPT
                          !.pc = "tokens",
                          !.sessionData = IF out.status = 200
                                          THEN [@ EXCEPT !.queue = IdsOf(out.body.queue)]
                                          ELSE @]

(* handlePlaySynced: get-all-tokens; no tokens or an error ends the flow *)
FlowTokens ==
    /\ client.pc = "tokens"
    /\ LET req == [code |-> client.sessionCode]
           out == getAllTokensHandler(cleanOldSessions(sessions, now), req.code, now)
       IN /\ Answer("get-all-tokens", req, out)
          /\ client' = IF out.status = 200 /\ Len(out.body.tokens) > 0
                       THEN [client EXCEPT !.pc = "sync"]
                       ELSE Landed(client, "done", out.sessions)

(* handlePlaySynced: play-sync, answered by the Sync API with success or not,
   or failing *)
FlowSync(success) ==
    /\ client.pc = "sync"
    /\ client' = IF success THEN [client EXCEPT !.pc = "update"]
                 ELSE Landed(client, "done", sessions)
    /\ UNCHANGED <<sessions, now, resp, prev, kv, inflight, sync, backend, proxy>>

(* handlePlaySynced: update-track; then the track is removed if the render's
   sessionData holds it in its queue *)
FlowUpdate ==
    /\ client.pc = "update"
    /\ LET req == [code |-> client.sessionCode, track |-> TrackObj(client.track)]
           out == updateTrackHandler(cleanOldSessions(sessions, now), req.code,
                                     req.track, now)
           noted == [client EXCEPT
                        !.started = out.status = 200,
                        !.queued = Has(sessions, client.sessionCode)
                                   /\ Includes(IdsOf(sessions[client.sessionCode].queue),
                                               client.track)]
       IN /\ Answer("update-track", req, out)
          /\ client' = IF out.status # 200 THEN Landed(noted, "done", out.sessions)
                       ELSE IF SeenInQueue(noted) THEN [noted EXCEPT !.pc = "remove"]
                       ELSE Landed(noted, AfterPlaySynced(noted), out.sessions)

(* handleRemoveTrack: removeTrack as host; on success the queue of the answer
   is kept, an error is caught *)
FlowRemove ==
    /\ client.pc = "remove"
    /\ LET req == [code |-> client.sessionCode, trackId |-> client.track,
                   requesterId |-> client.userId, isHost |-> client.isHost]
           out == removeTrackHandler(cleanOldSessions(sessions, now), req.code,
                                     req.trackId, req.requesterId, req.isHost, now)
           kept == [client EXCEPT
                       !.sessionData = IF out.status = 200
                                       THEN [@ EXCEPT !.queue = IdsOf(out.body.queue)]
                                       ELSE @]
       IN /\ Answer("removeTrack", req, out)
          /\ client' = Landed(kept, AfterPlaySynced(kept), out.sessions)

(* handleAcceptRequest: clear-request after handlePlaySynced *)
FlowClear ==
    /\ client.pc = "clear"
    /\ LET req == [code |-> client.sessionCode, trackId |-> client.track]
           out == clearRequestHandler(cleanOldSessions(sessions, now), req.code,
                                      req.trackId, now)
       IN /\ Answer("clear-request", req, out)
          /\ client' = Landed(client, "done", out.sessions)

(* The flow has ended; the next click may come *)
FlowOver ==
    /\ client.pc = "done"
    /\ client' = [client EXCEPT !.pc = "idle"]
    /\ UNCHANGED <<sessions, now, resp, prev, kv, inflight, sync, backend, proxy>>

(* SpecPlayNow: the host polls and plays tracks at once, from the queue,
   the history, the search and the requests, while a guest queues and
   requests tracks *)
InitPlayNow == InitServer /\ backend = "memory" /\ client = HostClient

NextPlayNow ==
    \/ HostCreates
    \/ HostPolls
    \/ AddTrack(Code1, TrackObj("t1"), "Bob", "u2")
    \/ RequestPlay(Code1, TrackObj("t1"), "Bob", "u2")
    \/ \E flow \in {"play", "addAndPlay", "accept"}, id \in KVTracks :
            HistoryRoom(Code1, 2) /\ Click(flow, id)
    \/ FlowAdd
    \/ FlowTokens
    \/ \E success \in BOOLEAN : FlowSync(success)
    \/ FlowUpdate
    \/ FlowRemove
    \/ FlowClear
    \/ FlowOver

SpecPlayNow == InitPlayNow /\ [][NextPlayNow]_vars

-----------------------------------------------------------------------------
(* The profile fetch of the React client (part_001): the effect on [token,
   profileLoaded] calls fetchProfile, which on a 401 or 403 refreshes the
   token once and validates the new one, or clears everything. stored* are
   the localStorage items; ran says that the effect has run for the present
   token and profileLoaded; tried is not in the code: it counts the refresh
   requests sent since the last 401 or 403 of the profile request *)
MaxRefreshAttempts == 2

LoggedOut ==
    [token |-> Undefined, profileLoaded |-> FALSE, refreshAttempts |-> 0,
     storedToken |-> Undefined, storedRefresh |-> Undefined, storedSession |-> FALSE,
     sessionCode |-> NoCode, pc |-> "idle", ran |-> FALSE, fresh |-> Undefined,
     userName |-> Undefined, userId |-> Undefined, tried |-> 0]

(* "clear everything": both branches that give up *)
ClearAll(c) ==
    [c EXCEPT !.refreshAttempts = 0, !.storedToken = Undefined,
              !.storedRefresh = Undefined, !.storedSession = FALSE,
              !.token = Undefined, !.sessionCode = NoCode, !.profileLoaded = FALSE,
              !.pc = "idle", !.ran = FALSE]

(* display_name || 'User' *)
NameOr(displayName) == IF displayName = Undefined THEN "User" ELSE displayName

(* The profile and the token are accepted *)
Loaded(c, token, displayName) ==
    [c EXCEPT !.token = token, !.storedToken = token, !.profileLoaded = TRUE,
              !.userName = NameOr(displayName), !.userId = "u1",
              !.refreshAttempts = 0, !.pc = "idle", !.ran = FALSE]

(* fetchProfile after the answer of GET /v1/me: its status, 0 when the
   request fails with none; a 200 carries an id, and a display_name or none *)
OnProfile(c, answer, displayName) ==
    IF answer \in {401, 403}
    THEN IF c.refreshAttempts >= MaxRefreshAttempts THEN [ClearAll(c) EXCEPT !.tried = 0]
         ELSE IF c.storedRefresh # Undefined
         THEN [c EXCEPT !.refreshAttempts = @ + 1, !.pc = "refresh", !.tried = 1]
         ELSE [ClearAll(c) EXCEPT !.tried = 0]
    ELSE IF answer = 200
    THEN [c EXCEPT !.profileLoaded = TRUE, !.userName = NameOr(displayName),
                   !.userId = "u1", !.refreshAttempts = 0, !.pc = "idle", !.ran = FALSE]
    ELSE [c EXCEPT !.pc = "idle"]

(* A refresh that is sent again, and counted, when it fails *)
OnRefreshAgain(c, answer) ==
    IF answer = "token" THEN [c EXCEPT !.pc = "validate", !.fresh = "tokB"]
    ELSE IF c.tried <= MaxRefreshAttempts
    THEN [c EXCEPT !.refreshAttempts = @ + 1, !.tried = @ + 1]
    ELSE ClearAll(c)

(* fetchProfile after the answer of POST /api/auth?action=refresh: a body
   with an access_token, a body with an error, or a request or a body that
   throws *)
OnRefresh(c, answer) ==
    IF answer = "token" THEN [c EXCEPT !.pc = "validate", !.fresh = "tokB"]
    ELSE ClearAll(c)

(* fetchProfile after the answer of the validating GET /v1/me *)
OnValidate(c, ok, displayName) ==
    IF ok THEN Loaded(c, c.fresh, displayName) ELSE ClearAll(c)

(* The page is opened after the login: the token comes with the URL, with
   or without a refresh token; a saved session is restored *)
OpenPage(refresh, session) ==
    /\ client.token = Undefined /\ client.pc = "idle"
    /\ client' = [client EXCEPT
                    !.token = "tokA", !.storedToken = "tokA",
                    !.storedRefresh = IF refresh THEN "refA" ELSE @,
                    !.storedSession = session,
                    !.sessionCode = IF session THEN Code1 ELSE NoCode,
                    !.ran = FALSE, !.tried = 0]
    /\ UNCHANGED <<sessions, now, resp, prev, kv, inflight, sync, backend, proxy>>

(* The effect: if (!token || profileLoaded) return; fetchProfile() *)
fetchProfile ==
    /\ client.token # Undefined /\ ~client.profileLoaded
    /\ client.pc = "idle" /\ ~client.ran
    /\ client' = [client EXCEPT !.pc = "me", !.ran = TRUE]
    /\ UNCHANGED <<sessions, now, resp, prev, kv, inflight, sync, backend, proxy>>

ProfileAnswers(answer, displayName) ==
    /\ client.pc = "me"
    /\ client' = OnProfile(client, answer, displayName)
    /\ UNCHANGED <<sessions, now, resp, prev, kv, inflight, sync, backend, proxy>>

RefreshAnswers(answer) ==
    /\ client.pc = "refresh"
    /\ client' = OnRefresh(client, answer)
    /\ UNCHANGED <<sessions, now, resp, prev, kv, inflight, sync, backend, proxy>>

ValidateAnswers(ok, displayName) ==
    /\ client.pc = "validate"
    /\ client' = OnValidate(client, ok, displayName)
    /\ UNCHANGED <<sessions, now, resp, prev, kv, inflight, sync, backend, proxy>>

(* handleLogout, which a running fetchProfile does not notice *)
handleLogout ==
    /\ client.token # Undefined
    /\ client' = [client EXCEPT !.storedToken = Undefined, !.storedRefresh = Undefined,
                                !.storedSession = FALSE, !.sessionCode = NoCode,
                                !.token = Undefined, !.profileLoaded = FALSE,
                                !.userName = Undefined, !.userId = Undefined,
                                !.refreshAttempts = 0, !.ran = FALSE]
    /\ UNCHANGED <<sessions, now, resp, prev, kv, inflight, sync, backend, proxy>>

(* handleCreateSession, once the profile is loaded: the code is kept and
   saved *)
ProfileCreates ==
    /\ client.profileLoaded /\ client.token # Undefined
    /\ client.sessionCode = NoCode /\ client.pc = "idle"
    /\ LET req == [hostToken |-> client.token, hostName |-> client.userName,
                   hostId |-> client.userId]
           out == createHandler(cleanOldSessions(sessions, now), req.hostToken,
                                req.hostName, req.hostId, Draw1, now)
       IN /\ Answer("create", req, out)
          /\ client' = IF out.status = 200
                       THEN [client EXCEPT !.sessionCode = out.body.session.code,
                                           !.storedSession = TRUE]
                       ELSE client

(* The token expires: the next page load fetches the profile again *)
Reload ==
    /\ client.token # Undefined /\ client.pc = "idle"
    /\ client' = [client EXCEPT !.token = client.storedToken, !.profileLoaded = FALSE,
                                !.userName = Undefined, !.userId = Undefined,
                                !.refreshAttempts = 0, !.ran = FALSE, !.tried = 0]
    /\ UNCHANGED <<sessions, now, resp, prev, kv, inflight, sync, backend, proxy>>

(* SpecProfile: the page is opened, the profile fetched, the token refreshed,
   with every answer the three requests can get; every request is answered *)
InitProfile == InitServer /\ backend = "memory" /\ client = LoggedOut

NextProfile ==
    \/ \E refresh \in BOOLEAN, session \in BOOLEAN : OpenPage(refresh, session)
    \/ fetchProfile
    \/ \E answer \in {200, 401, 403, 500, 0}, displayName \in {"Ann", Undefined} :
            ProfileAnswers(answer, displayName)
    \/ \E answer \in {"token", "error", "throw"} : RefreshAnswers(answer)
    \/ \E ok \in BOOLEAN, displayName \in {"Ann", Undefined} :
            ValidateAnswers(ok, displayName)
    \/ handleLogout
    \/ ProfileCreates
    \/ Reload

SpecProfile ==
    /\ InitProfile /\ [][NextProfile]_vars
    /\ WF_vars(\E answer \in {"token", "error", "throw"} : RefreshAnswers(answer))
    /\ WF_vars(\E ok \in BOOLEAN, displayName \in {"Ann", Undefined} :
                    ValidateAnswers(ok, displayName))

-----------------------------------------------------------------------------
(* Reading the last request and the session it addressed *)

Key == toUpperCase(resp.req.code)
Addressed == resp.action # "none" /\ resp.action # "create" /\ Key \in DOMAIN prev
Served(action) == resp.action = action /\ Addressed
Ok(action) == Served(action) /\ resp.status = 200
Before == prev[Key]
After == sessions[Key]
PosIn(q, id) == IndexOf(q, LAMBDA x : x.id = id)
InQueue(q, id) == PosIn(q, id) # 0
ItemOf(q, id) == q[PosIn(q, id)]
SortedByVotes(q) == \A i, j \in 1..Len(q) : i < j => q[i].votes >= q[j].votes

-----------------------------------------------------------------------------
(* A vote answered 200 is followed at once by the same vote, answered 200 *)
SecondVote ==
    /\ Ok("vote")
    /\ resp'.action = "vote" /\ resp'.status = 200 /\ resp'.req = resp.req
    /\ resp'.after = "same"

(* C2 as stated: two consecutive vote calls by one voter on one track return
   the track's votes to the value before the first call and leave the voter
   absent from votedBy. *)
C2_VoteTwiceLeavesVoterAbsent ==
    [][SecondVote =>
        LET t == resp.req.trackId
            item == ItemOf(sessions'[Key].queue, t)
        IN /\ item.votes = ItemOf(Before.queue, t).votes
           /\ ~Includes(item.votedBy, resp.req.voterId)]_vars

(* C2 amended: two consecutive vote calls by one voter on one track return the
   track's votes to the value before the first call and leave the voter in
   votedBy exactly if the voter was in it before the first call. *)
C2_VoteTwiceRestores ==
    [][SecondVote =>
        LET t == resp.req.trackId
            item == ItemOf(sessions'[Key].queue, t)
            was == ItemOf(Before.queue, t)
        IN /\ item.votes = was.votes
           /\ Includes(item.votedBy, resp.req.voterId)
                <=> Includes(was.votedBy, resp.req.voterId)]_vars

(* C2 witness: a voter who was not in votedBy has voted and, in the next call,
   retracted; the state is the one after the second call. *)
C2_Witness ==
    /\ Ok("vote") /\ resp.after = "same"
    /\ ~Includes(ItemOf(After.queue, resp.req.trackId).votedBy, resp.req.voterId)
    /\ ItemOf(After.queue, resp.req.trackId).votes = 1
    /\ Len(After.queue) = 2

(* C3: right after a successful vote the queue is sorted by descending votes,
   and two tracks with equal votes are in the relative order they had before
   the call. *)
C3_VoteSortsStably ==
    Ok("vote") =>
        /\ SortedByVotes(After.queue)
        /\ \A i, j \in 1..Len(After.queue) :
              (i < j /\ After.queue[i].votes = After.queue[j].votes)
                  => PosIn(Before.queue, After.queue[i].id)
                        < PosIn(Before.queue, After.queue[j].id)

(* C3 witness: a retracted vote made the first track tie with the second;
   it stays first, as before the call, although the other was queued earlier. *)
C3_Witness ==
    /\ Ok("vote")
    /\ Len(After.queue) = 2
    /\ After.queue[1].votes = After.queue[2].votes
    /\ After.queue[1].id = "t2" /\ After.queue[2].id = "t1"
    /\ Before.queue[1].id = "t2" /\ Before.queue[1].votes > Before.queue[2].votes

(* C5: addTrack of a track whose id is already in the session's queue is
   answered 400 and the stored queue is as it was. *)
C5_DuplicateAddRejected ==
    (Served("addTrack") /\ resp.req.track # NullObj
        /\ InQueue(Before.queue, resp.req.track.id))
    => /\ resp.status = 400
       /\ resp.body = [error |-> "Track already in queue"]
       /\ After.queue = Before.queue

C5_Witness ==
    /\ Served("addTrack") /\ resp.req.track # NullObj
    /\ InQueue(Before.queue, resp.req.track.id)
    /\ Len(Before.queue) = 2
    /\ resp.req.addedById # ItemOf(Before.queue, resp.req.track.id).addedById

-----------------------------------------------------------------------------
Alphabet32 ==
    {"A","B","C","D","E","F","G","H","J","K","L","M","N","P","Q","R",
     "S","T","U","V","W","X","Y","Z","2","3","4","5","6","7","8","9"}

CreateAnswersCode ==
    (resp.action = "create" /\ resp.req.hostToken # Undefined)
    => /\ resp.status = 200
       /\ Len(resp.body.session.code) = 6
       /\ \A i \in 1..Len(resp.body.session.code) : resp.body.session.code[i] \in Alphabet32

GetAfterCreate ==
    (/\ resp.action = "create" /\ resp.status = 200
     /\ resp'.action = "get" /\ resp'.after = "create"
     /\ toUpperCase(resp'.req.code) = toUpperCase(resp.body.session.code))
    => /\ resp'.status = 200
       /\ resp'.body.session.queue = << >>
       /\ resp'.body.session.guests = << >>
       /\ resp'.body.session.history = << >>

(* C1: a create that carries a hostToken answers with a code of exactly 6
   characters, each one of ABCDEFGHJKLMNPQRSTUVWXYZ23456789, and a get issued
   next with that code, in any letter case, answers with a session whose
   queue, guests and history are empty. *)
C1_CreateThenGet == [](CreateAnswersCode) /\ [][GetAfterCreate]_vars

(* C1 witness: while another session holds tracks, a session was created
   under the code "ZZ99HJ" and the get that followed, spelling the code in
   lower case, was answered with the empty session. *)
C1_Witness ==
    /\ resp.action = "get" /\ resp.status = 200 /\ resp.after = "create"
    /\ resp.req.code = toLowerCase(Code2) /\ resp.req.code # Code2
    /\ resp.body.session.code = Code2
    /\ resp.body.session.queue = << >>
    /\ Code1 \in DOMAIN sessions /\ Len(sessions[Code1].queue) = NumTracks

-----------------------------------------------------------------------------
(* C4: in every reachable state the queue of every session is sorted by
   descending votes, so that the head playNext removes has the most votes of
   the tracks that were queued. *)
C4_QueueAlwaysSorted ==
    /\ \A c \in DOMAIN sessions : SortedByVotes(sessions[c].queue)
    /\ Ok("playNext") =>
          \A i \in 1..Len(Before.queue) : resp.body.track.votes >= Before.queue[i].votes

(* C7: playNext on an empty queue is rejected and changes nothing; on a
   non-empty queue it removes exactly the first element, the rest keeping
   their order, makes it currentTrack, and appends the previous currentTrack
   to history if there was one, leaving history alone if there was none. *)
C7_PlayNextPopsHead ==
    Served("playNext") =>
        IF Len(Before.queue) = 0
        THEN resp.status = 400 /\ sessions = prev
        ELSE /\ resp.status = 200
             /\ After.queue = Tail(Before.queue)
             /\ After.currentTrack = Head(Before.queue)
             /\ resp.body.track = Head(Before.queue)
             /\ IF Before.currentTrack = NullObj
                THEN After.history = Before.history
                ELSE /\ Len(After.history) = Len(Before.history) + 1
                     /\ SubSeq(After.history, 1, Len(Before.history)) = Before.history
                     /\ \A k \in DOMAIN Before.currentTrack :
                           After.history[Len(After.history)][k] = Before.currentTrack[k]

(* C7 witness: a track was playing and two were queued; playNext moved the
   first of them to currentTrack and the one that was playing to history. *)
C7_Witness ==
    /\ Ok("playNext")
    /\ Len(Before.queue) = 2
    /\ Before.currentTrack # NullObj
    /\ Len(After.history) = Len(Before.history) + 1
    /\ After.history[Len(After.history)].id = Before.currentTrack.id
    /\ After.currentTrack.id # Before.currentTrack.id

(* C9: the history of a session never holds more than 50 entries. *)
C9_HistoryCapped ==
    \A c \in DOMAIN sessions : Len(sessions[c].history) <= 50

(* C8: removeTrack of a queued track succeeds exactly if the request says it
   comes from the host (isHost), or its requesterId is the addedById of the
   track, or the session's allowGuestRemove is true; otherwise it is answered
   403 and the queue is as it was. *)
C8_RemoveAuthorized ==
    (Served("removeTrack") /\ resp.req.trackId # Undefined
        /\ InQueue(Before.queue, resp.req.trackId))
    => LET item == ItemOf(Before.queue, resp.req.trackId)
           allowed == \/ resp.req.isHost
                      \/ resp.req.requesterId = item.addedById
                      \/ Before.settings.allowGuestRemove
       IN IF allowed
          THEN /\ resp.status = 200
               /\ After.queue = Filter(Before.queue, LAMBDA x : x.id # resp.req.trackId)
          ELSE /\ resp.status = 403
               /\ After.queue = Before.queue

(* C8 witness: with allowGuestRemove on, a requester who is neither host nor
   the adder removed the second of two queued tracks. *)
C8_Witness ==
    /\ Ok("removeTrack")
    /\ ~resp.req.isHost
    /\ resp.req.requesterId # Undefined
    /\ Len(Before.queue) = 2 /\ Before.queue[2].id = resp.req.trackId
    /\ Before.queue[2].addedById # Undefined
    /\ Before.queue[2].addedById # resp.req.requesterId
    /\ Before.settings.allowGuestRemove
    /\ Len(After.queue) = 1

DistinctIds(q) == \A i, j \in 1..Len(q) : q[i].id = q[j].id => i = j

(* C6: in every reachable state no two items of a queue have the same track
   id: in the Map of session.js, in the KV store, and in the copy of every
   handler that has read the record and not yet written it. *)
C6_QueueIdsDistinct ==
    /\ \A c \in DOMAIN sessions : DistinctIds(sessions[c].queue)
    /\ \A c \in DOMAIN kv : DistinctIds(kv[c].session.queue)
    /\ \A c \in Clients : inflight[c] # Idle => DistinctIds(inflight[c].session.queue)

(* C6 witness: two addTrack handlers for the same track both read the empty
   queue; both have written, and the stored queue holds the track once. *)
C6_Witness ==
    /\ backend = "kv"
    /\ resp.action = "addTrack" /\ resp.status = 200
    /\ prev # EmptyMap /\ Code1 \in DOMAIN prev /\ Code1 \in DOMAIN kv
    /\ Len(prev[Code1].session.queue) = 1
    /\ prev[Code1].session.queue[1].id = resp.req.track.id
    /\ Len(kv[Code1].session.queue) = 1
    /\ kv[Code1].session.queue[1].id = resp.req.track.id

-----------------------------------------------------------------------------
(* Reading the fan-out request that was answered *)

SyncAnswered == SyncStage = "done"
Validated ==
    /\ sync.req.tokens.isArray
    /\ sync.req.action \in SyncActions
    /\ sync.req.action = "play-sync" => sync.req.trackUri # Undefined
    /\ sync.req.action = "seek-sync" => sync.req.position # NoPosition
Entries == IF sync.req.action = "get-states" THEN sync.body.states ELSE sync.body.results
CallFailed(o) == o.kind = "throws" \/ ~ResponseOk(o)
CallThrew(o) == o.kind = "throws" \/ (o.status # 204 /\ ~o.body.json)

(* Entry e is what call o of the token at index i (from 0) produced *)
EntryOf(e, i, o) ==
    IF sync.req.action = "get-states"
    THEN e.user = i /\ (("error" \in DOMAIN e) <=> CallThrew(o))
    ELSE e.success = ~CallFailed(o)

(* C10: a validated sync request over N tokens is answered with exactly N
   per-token entries, entry i made from the call for token i, whichever of
   the N calls fail *)
C10_EveryTokenAnswered ==
    (SyncAnswered /\ Validated) =>
        /\ sync.status = 200
        /\ Len(Entries) = Len(sync.req.tokens.items)
        /\ \A i \in 1..Len(sync.calls) : EntryOf(Entries[i], i - 1, sync.calls[i])

(* a batch of three in which the second call alone succeeded *)
C10_Witness ==
    /\ SyncAnswered /\ Validated
    /\ sync.req.action = "play-sync"
    /\ Len(sync.calls) >= 3
    /\ sync.calls[1] = Throws
    /\ ~CallFailed(sync.calls[2])
    /\ sync.calls[3] = Answered(502, HtmlBody)
    /\ Len(sync.body.results) = Len(sync.calls)

(* C11: the batch-level success flag of play-sync, pause-sync, resume-sync,
   seek-sync and skip-sync is true exactly if at least one per-token result
   has success true; it is false when every call failed. *)
C11_BatchFlagIffAnySuccess ==
    (SyncAnswered /\ Validated /\ sync.status = 200 /\ sync.req.action # "get-states")
    => (sync.body.success
          <=> \E i \in 1..Len(sync.body.results) : sync.body.results[i].success)

-----------------------------------------------------------------------------
(* Reading a KV handler that writes in this step *)

Writes(c) == backend = "kv" /\ inflight[c] # Idle /\ inflight'[c] = Idle /\ kv' # kv
KVKey(c) == toUpperCase(inflight[c].req.code)

(* C12: over the KV store a handler writes back the whole record it read, so
   of two handlers interleaved as read, read, write, write the second write
   drops the first writer's update: a track that is in the store and not in
   the writer's copy is gone after the write, and the writer still answers
   success. *)
C12_SecondWriteLosesFirst ==
    [][\A c \in Clients :
          Writes(c) =>
            /\ resp'.status = 200
            /\ kv'[KVKey(c)].session = inflight[c].session
            /\ \A i \in 1..Len(kv[KVKey(c)].session.queue) :
                  ~InQueue(inflight[c].session.queue, kv[KVKey(c)].session.queue[i].id)
                    => ~InQueue(kv'[KVKey(c)].session.queue,
                                kv[KVKey(c)].session.queue[i].id)]_vars

(* C12 witness: two addTrack handlers read the empty queue; the first wrote
   t1 and the second, answered 200, wrote t2: the store holds t2 alone. *)
C12_Witness ==
    /\ backend = "kv"
    /\ resp.action = "addTrack" /\ resp.status = 200 /\ resp.req.track.id = "t2"
    /\ Code1 \in DOMAIN prev /\ Code1 \in DOMAIN kv
    /\ Len(prev[Code1].session.queue) = 1 /\ prev[Code1].session.queue[1].id = "t1"
    /\ Len(kv[Code1].session.queue) = 1 /\ kv[Code1].session.queue[1].id = "t2"

-----------------------------------------------------------------------------
(* C13: a session expires 24 hours after its creation and no later: no
   mutation moves the expiry of its record beyond createdAt + 24h, and none is
   applied to a session older than that. *)
C13_ExpiresADayAfterCreation ==
    /\ \A c \in DOMAIN kv :
          /\ kv[c].expiresAt <= kv[c].session.createdAt + 86400000
          /\ kv[c].session.lastActivity <= kv[c].session.createdAt + 86400000
    /\ \A c \in DOMAIN sessions :
          sessions[c].lastActivity <= sessions[c].createdAt + 86400000

-----------------------------------------------------------------------------
(* C14: leave and update-token with a code under which no session is stored
   answer success, not an error, and no record is created; prev is the store
   as the request found it. *)
C14_AbsentSessionIsSuccess ==
    (/\ resp.action \in {"leave", "update-token"}
     /\ resp.req.code # NoCode
     /\ resp.action = "update-token" => resp.req.newToken # Undefined
     /\ toUpperCase(resp.req.code) \notin DOMAIN prev)
    => /\ resp.status = 200
       /\ resp.body.success
       /\ toUpperCase(resp.req.code) \notin DOMAIN sessions
       /\ toUpperCase(resp.req.code) \notin DOMAIN kv

-----------------------------------------------------------------------------
(* The store with every token in it replaced *)
Scrub(S) ==
    [c \in DOMAIN S |->
        [S[c] EXCEPT !.hostToken = "scrubbed",
                     !.guests = [i \in 1..Len(@) |-> [@[i] EXCEPT !.token = "scrubbed"]]]]

(* The body the handler of an action sends for a request on store S *)
BodyOf(action, req, S, t) ==
    CASE action = "join" ->
            joinHandler(S, req.code, req.guestName, req.guestId, req.guestToken, t).body
      [] action = "get" -> getHandler(S, req.code, t).body
      [] action = "addTrack" ->
            addTrackHandler(S, req.code, req.track, req.addedBy, req.addedById, t).body
      [] action = "vote" -> voteHandler(S, req.code, req.trackId, req.voterId, t).body
      [] action = "removeTrack" ->
            removeTrackHandler(S, req.code, req.trackId, req.requesterId, req.isHost, t).body
      [] action = "update-track" -> updateTrackHandler(S, req.code, req.track, t).body
      [] action = "react" ->
            reactHandler(S, req.code, req.emoji, req.userName, req.userId, t).body
      [] action = "request-play" ->
            requestPlayHandler(S, req.code, req.track, req.requestedBy,
                               req.requestedById, t).body
      [] action = "clear-request" -> clearRequestHandler(S, req.code, req.trackId, t).body
      [] action = "updateSettings" ->
            updateSettingsHandler(S, req.code, req.settings, t).body
      [] action = "leave" -> leaveHandler(S, req.code, req.guestId, t).body

TokenFreeActions ==
    {"join", "get", "addTrack", "vote", "removeTrack", "update-track", "react",
     "request-play", "clear-request", "updateSettings", "leave"}

StoredTokens(S) ==
    {S[c].hostToken : c \in DOMAIN S}
        \cup UNION {{S[c].guests[i].token : i \in 1..Len(S[c].guests)} : c \in DOMAIN S}

(* C15: the response of create, join, get, addTrack, vote, removeTrack,
   update-track, react, request-play, clear-request, updateSettings and leave
   carries no stored token: it is the response the same request gets from the
   store with every host and guest token replaced, and create answers with the
   code, the host name and two counts.  Only get-all-tokens and playNext
   return tokens. *)
C15_ResponsesCarryNoToken ==
    [][(prev' = sessions) =>
          /\ resp'.action \in TokenFreeActions =>
                resp'.body = BodyOf(resp'.action, resp'.req,
                                    Scrub(cleanOldSessions(sessions, now)), now)
          /\ (resp'.action = "create" /\ resp'.status = 200) =>
                /\ DOMAIN resp'.body = {"success", "session"}
                /\ DOMAIN resp'.body.session
                      = {"code", "hostName", "queueLength", "guestCount"}
                /\ resp'.body.session.hostName \notin StoredTokens(sessions')]_vars

(* C15 witness: a get answered with a session that has a guest with a token;
   get-all-tokens, asked next, would return that token. *)
C15_Witness ==
    /\ resp.action = "get" /\ resp.status = 200
    /\ Len(resp.body.session.guests) = 1
    /\ "tok-u2" \in StoredTokens(sessions)
    /\ Len(resp.body.session.queue) = 1
    /\ Len(resp.body.session.reactions) = 1
    /\ Len(resp.body.session.playRequests) = 1

-----------------------------------------------------------------------------
(* Reading a join that the in-process API answered 200 *)

DistinctGuests(guests) == \A i, j \in 1..Len(guests) : guests[i].id = guests[j].id => i = j
Joined == backend = "memory" /\ Ok("join")
JoinIdent == GuestIdent(resp.req.guestId, now)
JoinPos == IndexOf(Before.guests, LAMBDA g : g.id = JoinIdent)

(* C16: in every reachable state the guests of a session have pairwise
   distinct ids (in the Map, in the KV store and in every handler's copy); a
   join with an id already present adds no entry and overwrites that guest's
   name and token where the guest stands, the other guests staying as they
   were. *)
C16_GuestsDistinctJoinInPlace ==
    /\ \A c \in DOMAIN sessions : DistinctGuests(sessions[c].guests)
    /\ \A c \in DOMAIN kv : DistinctGuests(kv[c].session.guests)
    /\ \A c \in Clients : inflight[c] # Idle => DistinctGuests(inflight[c].session.guests)
    /\ (Joined /\ JoinPos # 0) =>
          /\ Len(After.guests) = Len(Before.guests)
          /\ After.guests[JoinPos].id = JoinIdent
          /\ After.guests[JoinPos].token = resp.req.guestToken
          /\ After.guests[JoinPos].name
                = IF resp.req.guestName # Undefined THEN resp.req.guestName
                  ELSE "Guest " \o ToString(Len(Before.guests) + 1)
          /\ \A i \in 1..Len(Before.guests) :
                i # JoinPos => After.guests[i] = Before.guests[i]

(* C16 witness: the first of three guests, who had a token, joined again
   without one: still three guests, the first one now without a token. *)
C16_Witness ==
    /\ Joined /\ JoinPos = 1
    /\ Len(Before.guests) = 3 /\ Len(After.guests) = 3
    /\ Before.guests[1].token # Undefined
    /\ After.guests[1].token = Undefined
    /\ After.guests[1].id = Before.guests[1].id

-----------------------------------------------------------------------------
(* Reading a response that lists tokens *)

ListsTokens == backend = "memory" /\ (Ok("get-all-tokens") \/ Ok("playNext"))
TokenOfGuest(guests, id) == guests[IndexOf(guests, LAMBDA g : g.id = id)].token
HasToken(guests, id) ==
    IndexOf(guests, LAMBDA g : g.id = id) # 0 /\ TokenOfGuest(guests, id) # Undefined
FirstJoined == resp.joined[Key]

(* C17 as stated: the tokens of get-all-tokens and of playNext are the host
   token, then the stored tokens of exactly the guests that are in the session
   and have one, in the order in which those guests first joined. *)
C17_TokensInFirstJoinOrder ==
    ListsTokens =>
        LET order == SelectSeq(FirstJoined, LAMBDA id : HasToken(After.guests, id))
        IN resp.body.tokens
              = <<After.hostToken>>
                  \o [i \in 1..Len(order) |-> TokenOfGuest(After.guests, order[i])]

(* C17 amended: the tokens are the host token, then the stored tokens of
   exactly the guests that are in the session and have one, in the order of
   the guests list: the order in which they joined, a guest that left and
   joined again counting from the later join. *)
C17_TokensInGuestListOrder ==
    ListsTokens =>
        LET with == SelectSeq(After.guests, LAMBDA g : g.token # Undefined)
        IN /\ resp.body.tokens
                = <<After.hostToken>> \o [i \in 1..Len(with) |-> with[i].token]
           /\ Len(resp.body.tokens) - 1
                = Cardinality({id \in {After.guests[i].id : i \in 1..Len(After.guests)} :
                                  HasToken(After.guests, id)})

(* C17 witness: of three guests the second has no token and one that had
   joined first has left and come back: the tokens are the host's, then the
   other two in list order. *)
C17_Witness ==
    /\ ListsTokens
    /\ Len(After.guests) = 3 /\ Len(resp.body.tokens) = 3
    /\ After.guests[2].token = Undefined
    /\ FirstJoined[1] = After.guests[3].id
    /\ resp.body.tokens = <<HostToken, After.guests[1].token, After.guests[3].token>>

-----------------------------------------------------------------------------
(* Reading the request served in this step *)

Serving(action) ==
    /\ backend = "memory" /\ prev' = sessions /\ now' = now
    /\ resp'.action = action /\ resp'.status = 200
ServedKey == toUpperCase(resp'.req.code)
IsPrefix(a, b) == Len(a) <= Len(b) /\ SubSeq(b, 1, Len(a)) = a

(* C18: a get's payload holds, of the stored reactions, those younger than 5
   seconds when the get is handled, in order: none whose age exceeds 5
   seconds; and the requests that are no get (and do not end the session)
   remove no reaction because of its age: the stored reactions stay, a react
   appending one and dropping from the front only at the cap of 20. *)
C18_GetPrunesOldReactions ==
    [][/\ Serving("get") =>
            /\ resp'.body.session.reactions
                  = Filter(sessions[ServedKey].reactions,
                           LAMBDA r : now - r.timestamp < 5000)
            /\ \A i \in 1..Len(sessions[ServedKey].reactions) :
                  now - sessions[ServedKey].reactions[i].timestamp > 5000
                    => ~Includes(resp'.body.session.reactions,
                                 sessions[ServedKey].reactions[i])
       /\ \A action \in {"join", "vote", "clear-request", "react"} :
            Serving(action) =>
                \/ IsPrefix(sessions[ServedKey].reactions, sessions'[ServedKey].reactions)
                \/ Len(sessions'[ServedKey].reactions) = 20]_vars

(* C18 witness: of two stored reactions, the get has answered the second
   alone and the first is gone from the store. *)
C18_Witness ==
    /\ Ok("get")
    /\ Len(Before.reactions) = 2
    /\ Before.reactions[2].timestamp - Before.reactions[1].timestamp >= 5000
    /\ resp.body.session.reactions = <<Before.reactions[2]>>
    /\ After.reactions = <<Before.reactions[2]>>

-----------------------------------------------------------------------------
(* C19: the reactions of a session never number more than 20; a react on a
   full list drops the oldest entry and keeps the newest 20 in order, the new
   reaction last. *)
C19_ReactionsCapped ==
    /\ \A c \in DOMAIN sessions : Len(sessions[c].reactions) <= 20
    /\ \A c \in DOMAIN kv : Len(kv[c].session.reactions) <= 20
    /\ (backend = "memory" /\ Ok("react")) =>
          LET new == After.reactions[Len(After.reactions)]
              pushed == Before.reactions \o <<new>>
          IN /\ new.emoji = resp.req.emoji /\ new.userId = resp.req.userId
             /\ After.reactions
                  = IF Len(pushed) > 20 THEN SubSeq(pushed, Len(pushed) - 19, Len(pushed))
                    ELSE pushed
             /\ resp.body.reactions = After.reactions

(* C19 witness: a react on a list of 20 whose first entry was older than its
   second: the second is now first and the list still holds 20. *)
C19_Witness ==
    /\ backend = "memory" /\ Ok("react")
    /\ Len(Before.reactions) = 20 /\ Len(After.reactions) = 20
    /\ Before.reactions[1].timestamp < Before.reactions[2].timestamp
    /\ After.reactions[1] = Before.reactions[2]
    /\ After.reactions[19] = Before.reactions[20]

-----------------------------------------------------------------------------
DistinctRequests(rs) == \A i, j \in 1..Len(rs) : rs[i].track.id = rs[j].track.id => i = j
PendingFor(rs, id) == \E i \in 1..Len(rs) : rs[i].track.id = id
WithoutRequest(rs, id) == SelectSeq(rs, LAMBDA r : r.track.id # id)

(* C20: in every reachable state the play requests of a session have pairwise
   distinct track ids, in the Map, in the KV store and in the copy a handler
   is about to save; a request-play for a track id that is pending in the
   record the handler reads is answered 400 'Song already requested' and
   changes nothing; a clear-request leaves
   the requests that have another track id, in their order, and nothing else
   of the session changes. *)
C20_RequestsDistinct ==
    /\ \A c \in DOMAIN sessions : DistinctRequests(sessions[c].playRequests)
    /\ \A c \in DOMAIN kv : DistinctRequests(kv[c].session.playRequests)
    /\ \A c \in Clients :
          inflight[c] # Idle => DistinctRequests(inflight[c].session.playRequests)
    /\ (/\ backend = "memory" /\ Served("request-play")
        /\ TruthyObj(resp.req.track)
        /\ PendingFor(Before.playRequests, resp.req.track.id))
          => /\ resp.status = 400
             /\ resp.body = [error |-> "Song already requested"]
             /\ sessions = prev
    /\ (/\ backend = "kv" /\ Served("request-play")
        /\ resp.body = [error |-> "Song already requested"])
          => /\ resp.status = 400
             /\ PendingFor(prev[Key].session.playRequests, resp.req.track.id)
             /\ kv = prev
    /\ (backend = "memory" /\ Ok("clear-request")) =>
          /\ After = [Before EXCEPT
                        !.playRequests = WithoutRequest(@, resp.req.trackId)]
          /\ Len(Before.playRequests) - Len(After.playRequests)
                = IF PendingFor(Before.playRequests, resp.req.trackId) THEN 1 ELSE 0
          /\ resp.body.requests = After.playRequests
    /\ (backend = "kv" /\ Ok("clear-request")) =>
          /\ ~PendingFor(resp.body.requests, resp.req.trackId)
          /\ kv[Key].session.playRequests = resp.body.requests

(* C20 witness: with two requests pending, a request-play for the track of
   the second is answered 400 and the requests are as they were. *)
C20_Witness ==
    /\ backend = "memory" /\ Served("request-play")
    /\ resp.status = 400 /\ resp.body = [error |-> "Song already requested"]
    /\ Len(Before.playRequests) = 2
    /\ Before.playRequests[2].track.id = resp.req.track.id
    /\ After.playRequests = Before.playRequests

-----------------------------------------------------------------------------
(* C21: across every step, of either backend and of every interleaving of
   the KV handlers' reads and writes, the lastActivity of a session that stays
   stored does not decrease and its createdAt does not change. *)
C21_ActivityNeverDecreases ==
    [][/\ \A c \in (DOMAIN sessions) \cap (DOMAIN sessions') :
            /\ sessions'[c].lastActivity >= sessions[c].lastActivity
            /\ sessions'[c].createdAt = sessions[c].createdAt
       /\ \A c \in (DOMAIN kv) \cap (DOMAIN kv') :
            /\ kv'[c].session.lastActivity >= kv[c].session.lastActivity
            /\ kv'[c].session.createdAt = kv[c].session.createdAt]_vars

-----------------------------------------------------------------------------
(* C22: after a create that answered success, every session that was stored
   before it is still stored under its code, with the contents it had. *)
C22_CreateKeepsLiveSessions ==
    (backend = "memory" /\ resp.action = "create" /\ resp.status = 200) =>
        \A c \in DOMAIN prev : c \in DOMAIN sessions /\ sessions[c] = prev[c]

-----------------------------------------------------------------------------
(* C23: an update-track that is answered success sets currentTrack to the
   track of the request; if there was a current track and its id is not the
   id of the new track (a null track has no id), the history gains exactly one
   entry at its end, the previous current track with the time it was replaced;
   if there was no current track or the ids are equal, the history is as it
   was. *)
C23_UpdateTrackPushesPrevious ==
    Ok("update-track") =>
        LET old == Before.currentTrack
            new == resp.req.track
            differs == old # NullObj /\ (new = NullObj \/ old.id # new.id)
        IN /\ After.currentTrack = new
           /\ resp.body.currentTrack = new
           /\ IF differs
              THEN /\ Len(After.history) = Len(Before.history) + 1
                   /\ SubSeq(After.history, 1, Len(Before.history)) = Before.history
                   /\ \A k \in DOMAIN old : After.history[Len(After.history)][k] = old[k]
                   /\ After.history[Len(After.history)].playedAt = now
              ELSE After.history = Before.history

(* C23 witness: a track was playing and update-track came with no track: the
   track that was playing is the last of the history and nothing plays. *)
C23_Witness ==
    /\ Ok("update-track")
    /\ resp.req.track = NullObj
    /\ Before.currentTrack # NullObj
    /\ Len(After.history) = Len(Before.history) + 1
    /\ After.history[Len(After.history)].id = Before.currentTrack.id
    /\ After.currentTrack = NullObj

(* update-track with the id of the track that is playing: history as it was *)
C23_WitnessSameId ==
    /\ Ok("update-track")
    /\ resp.req.track # NullObj /\ Before.currentTrack # NullObj
    /\ resp.req.track.id = Before.currentTrack.id
    /\ resp.req.track # Before.currentTrack
    /\ Len(Before.history) > 0 /\ After.history = Before.history

-----------------------------------------------------------------------------
(* C24: every invocation of a handler that has ended has sent a response
   with a status: no invocation ends in an exception that nothing caught. *)
C24_EveryInvocationAnswers ==
    /\ SyncStage # "threw"
    /\ SyncStage = "done" => sync.status \in 100..599
    /\ resp.action # "none" => resp.status \in 100..599

-----------------------------------------------------------------------------
(* C25: a sync request whose tokens are not an array, a play-sync without
   trackUri and a seek-sync without position are answered 400, whatever the
   token list, and no outbound call was issued for them. *)
C25_InvalidSyncIssuesNoCall ==
    (/\ sync # NullObj
     /\ \/ ~sync.req.tokens.isArray
        \/ sync.req.action = "play-sync" /\ sync.req.trackUri = Undefined
        \/ sync.req.action = "seek-sync" /\ sync.req.position = NoPosition)
    => /\ sync.stage = "done"
       /\ sync.status = 400
       /\ "error" \in DOMAIN sync.body
       /\ sync.calls = << >>

(* C25 witness: a seek-sync over two tokens or more, without position, was
   answered 400 and no call was made. *)
C25_Witness ==
    /\ SyncStage = "done"
    /\ sync.req.action = "seek-sync" /\ sync.req.position = NoPosition
    /\ sync.req.tokens.isArray /\ Len(sync.req.tokens.items) >= 2
    /\ sync.status = 400 /\ sync.body = [error |-> "Position required"]
    /\ sync.calls = << >>

-----------------------------------------------------------------------------
(* the positions that the players of a get-states returned: of the calls that
   were answered with a JSON body carrying a progress that is a number *)
ReportedPositions ==
    {sync.calls[i].body.progress_ms :
        i \in {j \in 1..Len(sync.calls) :
                 /\ sync.calls[j].kind # "throws"
                 /\ sync.calls[j].status # 204
                 /\ sync.calls[j].body.json
                 /\ "progress_ms" \in DOMAIN sync.calls[j].body
                 /\ sync.calls[j].body.progress_ms # NullMs}}

(* C26: the driftMs of a get-states answer is the largest minus the smallest
   of the positions that players returned, 0 when none returned one, and
   syncQuality is excellent below 1000, good from 1000 and below 3000, poor
   from 3000. *)
C26_DriftOverReportedPositions ==
    (SyncStage = "done" /\ sync.req.action = "get-states" /\ sync.status = 200) =>
        LET drift == IF ReportedPositions = {} THEN 0
                     ELSE SetMax(ReportedPositions) - SetMin(ReportedPositions)
        IN /\ sync.body.driftMs = drift
           /\ sync.body.syncQuality = "excellent" <=> drift < 1000
           /\ sync.body.syncQuality = "good" <=> (1000 <= drift /\ drift < 3000)
           /\ sync.body.syncQuality = "poor" <=> drift >= 3000

-----------------------------------------------------------------------------
(* C27: a playback request that reached the Web API and got an answer is
   answered with the upstream status and an error body when that status is not
   2xx, and with success when it is 204 or another 2xx, whatever the action. *)
C27_UpstreamStatusPassedThrough ==
    (ProxyStage = "done" /\ proxy.upstream.kind = "response") =>
        IF ResponseOk(proxy.upstream)
        THEN proxy.status = 200 /\ "error" \notin DOMAIN proxy.body
        ELSE proxy.status = proxy.upstream.status /\ "error" \in DOMAIN proxy.body

-----------------------------------------------------------------------------
Store == IF backend = "memory" THEN sessions ELSE kv

(* C28: an end that is given a code answers success true exactly if a
   session was stored under that code when it arrived and is not stored after
   it; given a code with no session, it answers success false with the
   message 'Session not found'. *)
C28_EndSuccessIffDeleted ==
    (resp.action = "end" /\ resp.status = 200) =>
        /\ resp.body.success <=> (Key \in DOMAIN prev /\ Key \notin DOMAIN Store)
        /\ Key \notin DOMAIN prev =>
              resp.body = [success |-> FALSE, message |-> "Session not found"]

(* C29: a code that is not stored becomes stored only by a create: once end
   has removed a session, no step of another handler, in flight or not, puts
   it back, so that a get finds nothing until a create draws the code. *)
C29_EndedStaysEnded ==
    [][/\ \A c \in (DOMAIN sessions') \ (DOMAIN sessions) : resp'.action = "create"
       /\ \A c \in (DOMAIN kv') \ (DOMAIN kv) : resp'.action = "create"]_vars

-----------------------------------------------------------------------------
(* C30: in the in-process store every addTrack and vote that succeeds is
   applied to the session as the request before it left it, whoever sent
   that one: an addTrack keeps the whole queue and appends its track, a vote
   keeps every track, changes no track but the one voted on, and on that one
   changes the vote of its voter only; other sessions are untouched.  So the
   session after any sequence of arrivals is the result of the requests
   applied one after the other in the order of their arrival, and no update
   is lost. *)
C30_NoLostUpdate ==
    [][\A action \in {"addTrack", "vote"} :
         Serving(action) =>
            LET key == toUpperCase(resp'.req.code)
                old == sessions[key].queue
                new == sessions'[key].queue
            IN /\ key \in DOMAIN sessions
               /\ \A c \in (DOMAIN sessions) \ {key} :
                     c \in DOMAIN sessions' /\ sessions'[c] = sessions[c]
               /\ action = "addTrack" =>
                     /\ Len(new) = Len(old) + 1
                     /\ SubSeq(new, 1, Len(old)) = old
                     /\ new[Len(new)].id = resp'.req.track.id
               /\ action = "vote" =>
                     /\ Len(new) = Len(old)
                     /\ \A i \in 1..Len(old) :
                           old[i].id # resp'.req.trackId => Includes(new, old[i])
                     /\ InQueue(new, resp'.req.trackId)
                     /\ \A u \in Users :
                           LET was == Includes(ItemOf(old, resp'.req.trackId).votedBy, u)
                               is == Includes(ItemOf(new, resp'.req.trackId).votedBy, u)
                           IN IF u = resp'.req.voterId THEN is # was ELSE is = was]_vars

(* C30 witness: both tracks are queued, one by each user, and a vote of the
   second user on a track the first had voted on left both votes on it. *)
C30_Witness ==
    /\ Ok("vote") /\ resp.req.voterId = "u2"
    /\ Len(After.queue) = 2
    /\ After.queue[1].addedById # After.queue[2].addedById
    /\ Includes(ItemOf(Before.queue, resp.req.trackId).votedBy, "u1")
    /\ Includes(ItemOf(After.queue, resp.req.trackId).votedBy, "u1")
    /\ Includes(ItemOf(After.queue, resp.req.trackId).votedBy, "u2")

-----------------------------------------------------------------------------
(* C31: an end, a playNext or an updateSettings sent by a participant who is
   not the host of the session it names leaves every session as it was. *)
C31_HostOnlyActions ==
    (/\ resp.action \in {"end", "playNext", "updateSettings"}
     /\ Key \in DOMAIN prev
     /\ resp.req.caller # prev[Key].hostId)
    => sessions = prev

-----------------------------------------------------------------------------
VotersOf(item) == {item.votedBy[k] : k \in 1..Len(item.votedBy)}

(* C32: for every item of every queue, votes is the number of distinct
   identifiers in votedBy, votedBy names nobody twice, and votes is not
   negative. *)
C32_VotesCountVoters ==
    \A c \in DOMAIN sessions :
        \A i \in 1..Len(sessions[c].queue) :
            LET item == sessions[c].queue[i]
            IN /\ item.votes = Cardinality(VotersOf(item))
               /\ Len(item.votedBy) = Cardinality(VotersOf(item))
               /\ item.votes >= 0

(* C32 witness: a vote retracted the last vote of a track that two had
   voted for: nobody is in its votedBy and its votes are 0. *)
C32_Witness ==
    /\ Ok("vote")
    /\ Len(ItemOf(Before.queue, resp.req.trackId).votedBy) = 1
    /\ ItemOf(After.queue, resp.req.trackId).votes = 0
    /\ ItemOf(After.queue, resp.req.trackId).votedBy = << >>
    /\ \E i \in 1..Len(After.queue) : Len(After.queue[i].votedBy) = 3

-----------------------------------------------------------------------------
(* C33: a request to the Session API that is answered 400, 403 or 404 leaves
   the stored record of the session it names exactly as it was, queue, guests,
   history, reactions, playRequests, currentTrack, isPlaying, settings and
   lastActivity, when that session has not outlived its 24 hours. *)
C33_ErrorsChangeNothing ==
    (/\ Addressed /\ resp.status \in {400, 403, 404}
     /\ ~(now - prev[Key].createdAt > MaxAgeMs))
        => (Key \in DOMAIN sessions /\ sessions[Key] = prev[Key])

(* C33 witness: a removeTrack of a queued track by somebody who is neither
   host nor owner was answered 403 and the track is still queued. *)
C33_Witness ==
    /\ Served("removeTrack") /\ resp.status = 403
    /\ InQueue(Before.queue, resp.req.trackId)
    /\ Len(Before.playRequests) = 1 /\ Len(Before.guests) = 1
    /\ ~Before.settings.allowVoting
    /\ After = Before

-----------------------------------------------------------------------------
(* C34: a vote that names a session whose allowVoting setting is off, and a
   track, is answered 403 and changes nothing, no votes, no votedBy, no queue
   order; a vote for a queued track on a session whose setting is on (again)
   is accepted and toggles the vote. Over the KV store the setting is the one
   of the record the handler read: a vote that goes on to save read a session
   with voting on, and one that read voting off is answered 403 with no save. *)
C34_VoteOfSession ==
    (backend = "memory" /\ Served("vote") /\ TruthyStr(resp.req.trackId)) =>
        IF ~Before.settings.allowVoting
        THEN resp.status = 403 /\ sessions = prev
        ELSE InQueue(Before.queue, resp.req.trackId) =>
                /\ resp.status = 200
                /\ After = VoteTrack(Before, resp.req.trackId, resp.req.voterId, now)

C34_VoteOfRecord ==
    \A c \in Clients :
        /\ (inflight[c] = Idle /\ inflight'[c] # Idle /\ inflight'[c].action = "vote")
              => (~VotingOffKV /\ InQueue(kv[Code1].session.queue, inflight'[c].req.trackId))
        /\ (/\ backend = "kv" /\ inflight' = inflight /\ resp' # resp
            /\ resp'.action = "vote" /\ TruthyStr(resp'.req.trackId) /\ VotingOffKV)
              => (resp'.status = 403 /\ kv' = kv)

C34_VotingDisabled == []C34_VoteOfSession /\ [][C34_VoteOfRecord]_vars

(* C34 witness: the track t2, queued while voting was off, has got the host's
   vote: voting was switched back on and the vote was accepted. *)
C34_Witness ==
    /\ Ok("vote") /\ resp.req.trackId = "t2"
    /\ Before.settings.allowVoting
    /\ ItemOf(Before.queue, "t2").votedBy = <<"u2">>
    /\ ItemOf(After.queue, "t2").votes = 2

-----------------------------------------------------------------------------
(* C35: in every stored session isPlaying is true exactly when currentTrack
   is set (not null), whatever create, playNext and update-track calls were
   served. *)
C35_PlayingIffTrack ==
    \A c \in DOMAIN sessions :
        sessions[c].isPlaying <=> (sessions[c].currentTrack # NullObj)

(* C35 witness: an update-track without a track has stopped a session that
   was playing its second track. *)
C35_Witness ==
    /\ Ok("update-track") /\ resp.req.track = NullObj
    /\ Before.isPlaying /\ Before.currentTrack # NullObj
    /\ Len(Before.history) = 1
    /\ ~After.isPlaying /\ After.currentTrack = NullObj

-----------------------------------------------------------------------------
(* C36: when the session whose code the client holds is gone from the store
   (ended while the client polls it), the client eventually holds no session
   code, and so polls that session no more, given that its polls keep being
   answered. *)
C36_EndedSessionIsLeft ==
    (client.sessionCode # NoCode /\ ~Has(sessions, client.sessionCode))
        ~> (client.sessionCode = NoCode)

(* C36 witness: the host ended the session while the guest's client held its
   code. *)
C36_Witness ==
    /\ resp.action = "end" /\ resp.status = 200 /\ resp.req.code = Code1
    /\ client.sessionCode = Code1 /\ ~client.isHost /\ ~client.leaving
    /\ ~Has(sessions, Code1)

-----------------------------------------------------------------------------
(* C37, as stated: when pollSession makes the part_001 client leave, its last
   5 polls were all answered 404. *)
C37_FiveConsecutive404 ==
    client.leftTrail # << >> =>
        /\ Len(client.leftTrail) >= LeaveAfter
        /\ \A i \in 1..LeaveAfter :
              client.leftTrail[Len(client.leftTrail) + 1 - i] = "404"

(* C37, amended: the error count of the part_001 client is the number of
   polls answered 404 since its last successful poll or join (or since it
   last left by polling) and stays below 5; pollSession makes the client
   leave exactly when the fifth such 404 arrives. Polls that fail otherwise
   in between neither count nor reset the count. *)
C37_Five404SinceSuccess ==
    /\ client.sessionErrorCount = CountOf(client.trail, "404")
    /\ client.sessionErrorCount < LeaveAfter
    /\ client.leftTrail # << >> =>
          /\ CountOf(client.leftTrail, "404") = LeaveAfter
          /\ client.leftTrail[Len(client.leftTrail)] = "404"

(* C37 witness: five polls in a row were answered 404 and pollSession has
   called handleLeaveSession. *)
C37_Witness ==
    /\ client.build = "part_001" /\ client.leaving
    /\ client.leftTrail = <<"404", "404", "404", "404", "404">>
    /\ resp.action = "get" /\ resp.status = 404
    /\ client.sessionErrorCount = 0

-----------------------------------------------------------------------------
(* C38: when a play-now flow that started its track (play-sync succeeded and
   update-track was accepted) has ended, and the track was in the server's
   queue when it was started, the track is not in the server's queue. *)
C38_PlayedTrackLeavesQueue ==
    (client.pc = "done" /\ client.started /\ client.queued) => ~client.left

-----------------------------------------------------------------------------
(* C39: once the profile request was answered 401 or 403 and a refresh was
   sent, the client comes to hold a validated token with profileLoaded true,
   or to hold no token, no stored token, no refresh token and no saved
   session; no more than 2 refresh requests are sent on the way, and
   refreshAttempts never exceeds 2. *)
TokenValidated == client.token # Undefined /\ client.token = client.fresh /\ client.profileLoaded
AllCleared ==
    /\ client.token = Undefined /\ client.storedToken = Undefined
    /\ client.storedRefresh = Undefined /\ ~client.storedSession
    /\ client.sessionCode = NoCode

C39_RefreshEnds ==
    /\ [](client.tried <= MaxRefreshAttempts /\ client.refreshAttempts <= MaxRefreshAttempts)
    /\ (client.pc \in {"refresh", "validate"}) ~> (client.pc = "idle" /\ (TokenValidated \/ AllCleared))

(* C39 witness: the profile request was answered 401, the refreshed token
   was validated, and the profile is loaded with the new token. *)
C39_Witness ==
    /\ client.pc = "idle" /\ client.tried = 1
    /\ client.token = "tokB" /\ client.storedToken = "tokB" /\ client.profileLoaded
    /\ client.refreshAttempts = 0 /\ client.storedSession

====
